---- MODULE Spec2Model ----
(***************************************************************************)
(* Model of the Voltr vault trading venue (src/src/voltr_venue.rs) with    *)
(* its account decoder (src/src/state.rs) and its conversion math          *)
(* (src/src/math.rs).                                                      *)
(*                                                                         *)
(* The Rust code computes on u16, u64 and u128 integers.  TLC's integers   *)
(* are 32 bits wide, so every program integer is held as a natural number  *)
(* of unbounded size: a sequence of limbs in base Base, least significant  *)
(* limb first, without leading zero limbs (zero is the empty sequence).    *)
(* The widths of the Rust types are then enforced explicitly, by comparing *)
(* against U16_MAX, U64_MAX and U128_MAX exactly where the code's checked, *)
(* saturating or wrapping operations do.                                   *)
(***************************************************************************)
EXTENDS Integers, Sequences, FiniteSets, TLC

-----------------------------------------------------------------------------
(* Natural numbers of unbounded size.                                      *)

Base == 64 * 64

Limb(a, i) == IF i <= Len(a) THEN a[i] ELSE 0

RECURSIVE Norm(_)
Norm(a) ==
    IF a = <<>> THEN a
    ELSE IF a[Len(a)] = 0 THEN Norm(SubSeq(a, 1, Len(a) - 1))
    ELSE a

RECURSIVE N(_)
N(n) == IF n = 0 THEN <<>> ELSE <<n % Base>> \o N(n \div Base)

Zero == <<>>
One == <<1>>

RECURSIVE CmpFrom(_, _, _)
CmpFrom(a, b, i) ==
    IF i = 0 THEN 0
    ELSE IF a[i] < b[i] THEN -1
    ELSE IF a[i] > b[i] THEN 1
    ELSE CmpFrom(a, b, i - 1)

Cmp(a, b) ==
    IF Len(a) < Len(b) THEN -1
    ELSE IF Len(a) > Len(b) THEN 1
    ELSE CmpFrom(a, b, Len(a))

Lt(a, b) == Cmp(a, b) < 0
Le(a, b) == Cmp(a, b) <= 0
Gt(a, b) == Cmp(a, b) > 0
Ge(a, b) == Cmp(a, b) >= 0

RECURSIVE AddFrom(_, _, _, _)
AddFrom(a, b, i, c) ==
    IF i > Len(a) /\ i > Len(b) THEN (IF c = 0 THEN <<>> ELSE <<c>>)
    ELSE LET s == Limb(a, i) + Limb(b, i) + c
         IN  <<s % Base>> \o AddFrom(a, b, i + 1, s \div Base)

Add(a, b) == AddFrom(a, b, 1, 0)

RECURSIVE SubFrom(_, _, _, _)
SubFrom(a, b, i, c) ==
    IF i > Len(a) THEN <<>>
    ELSE LET s == a[i] - Limb(b, i) - c
         IN  IF s < 0 THEN <<s + Base>> \o SubFrom(a, b, i + 1, 1)
             ELSE <<s>> \o SubFrom(a, b, i + 1, 0)

\* a - b for a >= b
Sub(a, b) == Norm(SubFrom(a, b, 1, 0))

RECURSIVE MulSmallFrom(_, _, _, _)
MulSmallFrom(a, k, i, c) ==
    IF i > Len(a) THEN (IF c = 0 THEN <<>> ELSE <<c>>)
    ELSE LET s == a[i] * k + c
         IN  <<s % Base>> \o MulSmallFrom(a, k, i + 1, s \div Base)

\* a * k for a limb k
MulSmall(a, k) == IF k = 0 THEN <<>> ELSE MulSmallFrom(a, k, 1, 0)

\* a * Base^n
ShiftLimbs(a, n) == IF a = <<>> THEN a ELSE [i \in 1..n |-> 0] \o a

\* a \div Base^n
DropLimbs(a, n) == IF Len(a) <= n THEN <<>> ELSE SubSeq(a, n + 1, Len(a))

RECURSIVE MulFrom(_, _, _)
MulFrom(a, b, j) ==
    IF j > Len(b) THEN <<>>
    ELSE Add(ShiftLimbs(MulSmall(a, b[j]), j - 1), MulFrom(a, b, j + 1))

Mul(a, b) == IF Len(a) >= Len(b) THEN MulFrom(a, b, 1) ELSE MulFrom(b, a, 1)

\* `LET v == e IN F(v)`, with e evaluated once however often F uses v
Bind(v, F(_)) == F(v)

\* <<quotient, remainder>> of a by a divisor k of one limb: limbs i..1 of a
\* are still to be divided, r is the remainder and q the quotient so far
RECURSIVE ShortDivFrom(_, _, _, _, _)
ShortDivFrom(a, k, i, r, q) ==
    IF i = 0 THEN <<q, r>>
    ELSE IF (r * Base + a[i]) \div k = 0
    THEN ShortDivFrom(a, k, i - 1, r * Base + a[i], <<0>> \o q)
    ELSE ShortDivFrom(a, k, i - 1, (r * Base + a[i]) % k,
                      <<(r * Base + a[i]) \div k>> \o q)

\* the largest q in lo..hi with q * d <= r, given lo * d <= r
RECURSIVE Digit(_, _, _, _)
Digit(r, d, lo, hi) ==
    IF lo >= hi THEN lo
    ELSE LET mid == (lo + hi + 1) \div 2
         IN  IF Le(MulSmall(d, mid), r) THEN Digit(r, d, mid, hi)
             ELSE Digit(r, d, lo, mid - 1)

\* one step of long division: the quotient limb of r by d, for r < d * Base
QuotLimb(r, d) ==
    IF Lt(r, d) THEN 0
    ELSE LET n == Len(d)
             rt == Limb(r, n + 1) * Base + Limb(r, n)
             hi == IF rt \div d[n] > Base - 1 THEN Base - 1 ELSE rt \div d[n]
             lo == rt \div (d[n] + 1)
         IN  Digit(r, d, lo, hi)

\* long division: limbs i..1 of a are still to be divided, r is the remainder
\* and q the quotient so far
RECURSIVE LongDivFrom(_, _, _, _, _)
LongDivFrom(a, d, i, r, q) ==
    IF i = 0 THEN <<q, r>>
    ELSE Bind(Norm(<<a[i]>> \o r), LAMBDA cur :
         Bind(QuotLimb(cur, d), LAMBDA ql :
            IF ql = 0 THEN LongDivFrom(a, d, i - 1, cur, <<0>> \o q)
            ELSE LongDivFrom(a, d, i - 1, Sub(cur, MulSmall(d, ql)), <<ql>> \o q)))

\* <<a \div d, a % d>> for d # 0
DivMod(a, d) ==
    IF Lt(a, d) THEN <<<<>>, a>>
    ELSE IF Len(d) = 1
    THEN Bind(ShortDivFrom(a, d[1], Len(a), 0, <<>>),
              LAMBDA qr : <<Norm(qr[1]), N(qr[2])>>)
    ELSE Bind(LongDivFrom(a, d, Len(a), <<>>, <<>>),
              LAMBDA qr : <<Norm(qr[1]), qr[2]>>)

Div(a, d) == DivMod(a, d)[1]
Mod(a, d) == DivMod(a, d)[2]

Square(a) == Mul(a, a)

RECURSIVE Pow(_, _)
Pow(a, e) ==
    IF e = 0 THEN One
    ELSE IF e % 2 = 0 THEN Square(Pow(a, e \div 2))
    ELSE Mul(Square(Pow(a, e \div 2)), a)

-----------------------------------------------------------------------------
(* The build profile.  Rust's unchecked integer operators (here `*` and    *)
(* `pow`) panic on overflow when the crate is built with overflow checks   *)
(* (the debug profile) and wrap modulo 2^128 when it is built without (the *)
(* release profile).  The profile is fixed for a run of the program.       *)

VARIABLES
    overflow_checks,   \* TRUE: overflow panics; FALSE: overflow wraps
    venue,             \* the VoltrVaultVenue object
    origin,            \* for each group of venue fields, the refresh that wrote it
    refreshes,         \* number of update_state calls made so far
    last               \* the last call made on the venue and what it returned

vars == <<overflow_checks, venue, origin, refreshes, last>>

-----------------------------------------------------------------------------
(* Integer types.                                                          *)

U16_MAX == Sub(Pow(N(2), 16), One)
U64_MAX == Sub(Pow(N(2), 64), One)
U128_MAX == Sub(Pow(N(2), 128), One)
U128_MODULUS == Pow(N(2), 128)

\* a modulo max + 1 for max = 2^w - 1: the bits of a that are set in max
LowBits(a, max) ==
    IF Le(a, max) THEN a
    ELSE Norm([i \in 1..Len(max) |-> a[i] % (max[i] + 1)])

\* Option<T>
None == [some |-> FALSE, v |-> Zero]
Some(x) == [some |-> TRUE, v |-> x]

\* Option::and_then
and_then(opt, f(_)) == IF opt.some THEN f(opt.v) ELSE None

\* the exact result if it fits the type, whose largest value is max
Fits(exact, max) == IF Le(exact, max) THEN Some(exact) ELSE None
Saturate(exact, max) == IF Le(exact, max) THEN exact ELSE max

checked_add(a, b, max) == Fits(Add(a, b), max)
checked_sub(a, b) == IF Ge(a, b) THEN Some(Sub(a, b)) ELSE None
checked_mul(a, b, max) == Fits(Mul(a, b), max)
checked_div(a, b) == IF b = Zero THEN None ELSE Some(Div(a, b))
saturating_add(a, b, max) == Saturate(Add(a, b), max)
saturating_sub(a, b) == IF Ge(a, b) THEN Sub(a, b) ELSE Zero

\* The unchecked operators of u128: [panic, val].
Unchecked128(exact) ==
    IF Le(exact, U128_MAX) THEN [panic |-> FALSE, val |-> exact]
    ELSE IF overflow_checks THEN [panic |-> TRUE, val |-> Zero]
    ELSE [panic |-> FALSE, val |-> LowBits(exact, U128_MAX)]

mul_u128(a, b) == Unchecked128(Mul(a, b))

\* a product of u128 values: [overflowed, val] with val the product modulo
\* 2^128; overflowed also if a factor had overflowed before
Wrapped(overflowed, exact) ==
    [overflowed |-> overflowed \/ Gt(exact, U128_MAX), val |-> LowBits(exact, U128_MAX)]
WrappingSquare(w) == Wrapped(w.overflowed, Mul(w.val, w.val))
WrappingMul(w, b) == Wrapped(w.overflowed, Mul(w.val, b))

\* a^e by repeated squaring, as u128::pow computes it
RECURSIVE WrappingPow(_, _)
WrappingPow(a, e) ==
    IF e = 0 THEN [overflowed |-> FALSE, val |-> One]
    ELSE IF e % 2 = 0 THEN WrappingSquare(WrappingPow(a, e \div 2))
    ELSE WrappingMul(WrappingSquare(WrappingPow(a, e \div 2)), a)

Unchecked128Pow(w) ==
    IF ~w.overflowed THEN [panic |-> FALSE, val |-> w.val]
    ELSE IF overflow_checks THEN [panic |-> TRUE, val |-> Zero]
    ELSE [panic |-> FALSE, val |-> w.val]

pow_u128(a, e) == Unchecked128Pow(WrappingPow(a, e))

-----------------------------------------------------------------------------
(* src/src/constants.rs and src/src/errors.rs                              *)

MAX_FEE_BPS == 10000
ONE_YEAR_U64 == 31536000
DEAD_WEIGHT == 1000
FRAC_BITS == 48

TOKEN_PROGRAM == "TokenkegQfeZyiNwAJbNbGKPFXCWuBvf9Ss623VQ5DA"
TOKEN_22_PROGRAM == "TokenzQdBNbLqP5VEhdkAS6EPFLC1PHnBqCXEpPxuEb"
VOLTR_VAULT_PROGRAM == "vVoLTRjQmtFpiYoegx285Ze4gsLJ8ZxgFKVcuvmG1a8"

\* anyhow::Result<u64> of the math functions: Ok(val), Err(err), or a panic
MathOk(x) == [kind |-> "Ok", val |-> x, err |-> "none"]
MathErr(e) == [kind |-> "Err", val |-> Zero, err |-> e]
MathPanic == [kind |-> "Panic", val |-> Zero, err |-> "arithmetic overflow"]

\* Option::ok_or(err), Option::ok_or_else(|| err.into())
ok_or(opt, err) == IF opt.some THEN MathOk(opt.v) ELSE MathErr(err)

\* the ? operator: the function returns what r is unless r is Ok, and goes on
\* with r's value if it is
Try(r, f(_)) == IF r.kind = "Ok" THEN f(r.val) ELSE r

\* an unchecked operation p = [panic, val] inside a function returning Result
Unwind(p, f(_)) == IF p.panic THEN MathPanic ELSE f(p.val)

\* u64::try_from(u128)
try_from_u64(x) == IF Le(x, U64_MAX) THEN MathOk(x) ELSE MathErr("TryFromIntError")

-----------------------------------------------------------------------------
(* src/src/math.rs                                                         *)

calc_init_lp_to_mint(amount, from_decimals, to_decimals) ==
    Unwind(pow_u128(N(10), to_decimals), LAMBDA to_pow :
    Bind(checked_mul(amount, to_pow, U128_MAX), LAMBDA product :
        IF ~product.some THEN MathErr("MathOverflow")
        ELSE Unwind(pow_u128(N(10), from_decimals), LAMBDA from_pow :
             Try(ok_or(checked_div(product.v, from_pow), "MathOverflow"),
                 LAMBDA result : try_from_u64(result)))))

\* calc_deposit_lp_to_mint with the denominator taken on the asset before the deposit
calc_deposit_lp_to_mint_pre_deposit_asset(amount, total_lp_supply_pre_deposit, total_asset_pre_deposit, issuance_fee_bps) ==
    Try(ok_or(checked_sub(N(MAX_FEE_BPS), issuance_fee_bps), "MathOverflow"),
        LAMBDA fee_adjusted :
    Try(ok_or(and_then(checked_mul(amount, total_lp_supply_pre_deposit, U128_MAX),
                       LAMBDA v : checked_mul(v, fee_adjusted, U128_MAX)),
              "MathOverflow"),
        LAMBDA numerator :
    Try(ok_or(and_then(checked_mul(total_asset_pre_deposit, N(MAX_FEE_BPS), U128_MAX),
                       LAMBDA v : and_then(checked_mul(amount, fee_adjusted, U128_MAX),
                                           LAMBDA w : checked_sub(v, w))),
              "MathOverflow"),
        LAMBDA denominator :
    IF denominator = Zero THEN MathErr("DivisionByZero")
    ELSE Try(ok_or(checked_div(numerator, denominator), "DivisionByZero"),
             LAMBDA lp_to_mint : try_from_u64(lp_to_mint)))))

calc_deposit_lp_to_mint(amount, total_lp_supply_pre_deposit, total_asset_pre_deposit, issuance_fee_bps) ==
    Try(ok_or(checked_add(total_asset_pre_deposit, amount, U64_MAX), "MathOverflow"),
        LAMBDA total_asset_post_deposit :
    Try(ok_or(checked_sub(N(MAX_FEE_BPS), issuance_fee_bps), "MathOverflow"),
        LAMBDA fee_adjusted :
    Try(ok_or(and_then(checked_mul(amount, total_lp_supply_pre_deposit, U128_MAX),
                       LAMBDA v : checked_mul(v, fee_adjusted, U128_MAX)),
              "MathOverflow"),
        LAMBDA numerator :
    Try(ok_or(and_then(checked_mul(total_asset_post_deposit, N(MAX_FEE_BPS), U128_MAX),
                       LAMBDA v : and_then(checked_mul(amount, fee_adjusted, U128_MAX),
                                           LAMBDA w : checked_sub(v, w))),
              "MathOverflow"),
        LAMBDA denominator :
    IF denominator = Zero THEN MathErr("DivisionByZero")
    ELSE Try(ok_or(checked_div(numerator, denominator), "DivisionByZero"),
             LAMBDA lp_to_mint : try_from_u64(lp_to_mint))))))

\* calc_management_fee_amount_in_asset with the division rounded down
calc_management_fee_amount_in_asset_floor(time_elapsed, total_asset_value, management_fee_bps) ==
    Try(ok_or(checked_mul(N(MAX_FEE_BPS), N(ONE_YEAR_U64), U64_MAX), "MathOverflow"),
        LAMBDA divisor :
    Try(ok_or(and_then(and_then(checked_mul(total_asset_value, time_elapsed, U128_MAX),
                           LAMBDA v : checked_mul(v, management_fee_bps, U128_MAX)),
                       LAMBDA v : checked_div(v, divisor)),
              "MathOverflow"),
        LAMBDA fee_amount : try_from_u64(fee_amount)))

calc_management_fee_amount_in_asset(time_elapsed, total_asset_value, management_fee_bps) ==
    Try(ok_or(checked_mul(N(MAX_FEE_BPS), N(ONE_YEAR_U64), U64_MAX), "MathOverflow"),
        LAMBDA divisor :
    Try(ok_or(and_then(and_then(checked_mul(total_asset_value, time_elapsed, U128_MAX),
                           LAMBDA v : checked_mul(v, management_fee_bps, U128_MAX)),
                       LAMBDA v : and_then(checked_add(v, saturating_sub(divisor, One),
                                                       U128_MAX),
                                           LAMBDA w : checked_div(w, divisor))),
              "MathOverflow"),
        LAMBDA fee_amount : try_from_u64(fee_amount)))

\* Result<u128>
mul_div(a, b, c) ==
    IF c = Zero THEN MathErr("DivisionByZero")
    ELSE Bind(checked_mul(Div(a, c), b, U128_MAX), LAMBDA qb :
         IF ~qb.some THEN MathErr("MathOverflow")
         ELSE Unwind(mul_u128(Mod(a, c), b), LAMBDA rb :
              ok_or(checked_add(qb.v, Div(rb, c), U128_MAX), "MathOverflow")))

\* calc_withdraw_asset_to_redeem as one combined ratio, truncated once
calc_withdraw_asset_to_redeem_single_ratio(amount_lp_to_burn, total_lp_supply_pre_withdraw, total_unlocked_asset, redemption_fee_bps) ==
    IF total_lp_supply_pre_withdraw = Zero THEN MathErr("DivisionByZero")
    ELSE Try(ok_or(checked_sub(N(MAX_FEE_BPS), redemption_fee_bps), "MathOverflow"),
             LAMBDA fee_adjusted :
         try_from_u64(Div(Mul(Mul(amount_lp_to_burn, total_unlocked_asset), fee_adjusted),
                          Mul(total_lp_supply_pre_withdraw, N(MAX_FEE_BPS)))))

\* faulty variant: the redemption fee added to the ratio instead of taken off it
calc_withdraw_asset_to_redeem_fee_added(amount_lp_to_burn, total_lp_supply_pre_withdraw, total_unlocked_asset, redemption_fee_bps) ==
    IF total_lp_supply_pre_withdraw = Zero THEN MathErr("DivisionByZero")
    ELSE Try(mul_div(Mul(amount_lp_to_burn, Pow(N(2), FRAC_BITS)),
                     total_unlocked_asset, total_lp_supply_pre_withdraw),
             LAMBDA bits1 :
         Try(ok_or(checked_add(N(MAX_FEE_BPS), redemption_fee_bps, U16_MAX),
                   "MathOverflow"),
             LAMBDA fee_adjusted :
         Try(mul_div(bits1, fee_adjusted, N(MAX_FEE_BPS)),
             LAMBDA bits2 : try_from_u64(Div(bits2, Pow(N(2), FRAC_BITS))))))

\* faulty variant: the fixed-point result rounded up to the next integer
calc_withdraw_asset_to_redeem_rounded_up(amount_lp_to_burn, total_lp_supply_pre_withdraw, total_unlocked_asset, redemption_fee_bps) ==
    IF total_lp_supply_pre_withdraw = Zero THEN MathErr("DivisionByZero")
    ELSE Try(mul_div(Mul(amount_lp_to_burn, Pow(N(2), FRAC_BITS)),
                     total_unlocked_asset, total_lp_supply_pre_withdraw),
             LAMBDA bits1 :
         Try(ok_or(checked_sub(N(MAX_FEE_BPS), redemption_fee_bps), "MathOverflow"),
             LAMBDA fee_adjusted :
         Try(mul_div(bits1, fee_adjusted, N(MAX_FEE_BPS)),
             LAMBDA bits2 :
                 try_from_u64(Div(Add(bits2, Sub(Pow(N(2), FRAC_BITS), One)),
                                  Pow(N(2), FRAC_BITS))))))

calc_withdraw_asset_to_redeem(amount_lp_to_burn, total_lp_supply_pre_withdraw, total_unlocked_asset, redemption_fee_bps) ==
    IF total_lp_supply_pre_withdraw = Zero THEN MathErr("DivisionByZero")
    ELSE Try(mul_div(Mul(amount_lp_to_burn, Pow(N(2), FRAC_BITS)),
                     total_unlocked_asset, total_lp_supply_pre_withdraw),
             LAMBDA bits1 :
         Try(ok_or(checked_sub(N(MAX_FEE_BPS), redemption_fee_bps), "MathOverflow"),
             LAMBDA fee_adjusted :
         Try(mul_div(bits1, fee_adjusted, N(MAX_FEE_BPS)),
             LAMBDA bits2 : try_from_u64(Div(bits2, Pow(N(2), FRAC_BITS))))))

\* calc_fee_lp_to_mint with the division rounded down
calc_fee_lp_to_mint_floor(fee_amount, total_lp_supply_pre_fee, total_asset_post_fee) ==
    Try(ok_or(checked_sub(total_asset_post_fee, fee_amount), "MathOverflow"),
        LAMBDA denominator :
    IF denominator = Zero THEN MathErr("DivisionByZero")
    ELSE Try(ok_or(checked_mul(fee_amount, total_lp_supply_pre_fee, U128_MAX),
                   "MathOverflow"),
             LAMBDA numerator :
         Try(ok_or(checked_div(numerator, denominator), "DivisionByZero"),
             LAMBDA lp_to_mint : try_from_u64(lp_to_mint))))

calc_fee_lp_to_mint(fee_amount, total_lp_supply_pre_fee, total_asset_post_fee) ==
    Try(ok_or(checked_sub(total_asset_post_fee, fee_amount), "MathOverflow"),
        LAMBDA denominator :
    IF denominator = Zero THEN MathErr("DivisionByZero")
    ELSE Try(ok_or(checked_mul(fee_amount, total_lp_supply_pre_fee, U128_MAX),
                   "MathOverflow"),
             LAMBDA numerator :
         Try(ok_or(and_then(checked_add(numerator, saturating_sub(denominator, One),
                                        U128_MAX),
                            LAMBDA v : checked_div(v, denominator)),
                   "DivisionByZero"),
             LAMBDA lp_to_mint : try_from_u64(lp_to_mint))))

-----------------------------------------------------------------------------
(* src/src/state.rs                                                        *)

DISCRIMINATOR_SIZE == 8

\* &data[from..to] and data[i] of a byte slice; the model counts from 1.
\* A slice that ends past the end of the data panics.
slice(data, from, to) == SubSeq(data, from + 1, to)
byte(data, i) == data[i + 1]

\* u16, u64, u128 ::from_le_bytes: the first byte is the least significant.
\* Three bytes make two limbs of 12 bits.
ByteAt(bytes, j) == IF j < Len(bytes) THEN bytes[j + 1] ELSE 0
from_le_bytes(bytes) ==
    Norm([i \in 1..((2 * Len(bytes) + 2) \div 3) |->
            IF i % 2 = 1
            THEN ByteAt(bytes, 3 * ((i - 1) \div 2))
                     + 256 * (ByteAt(bytes, 3 * ((i - 1) \div 2) + 1) % 16)
            ELSE (ByteAt(bytes, 3 * ((i - 1) \div 2) + 1) \div 16)
                     + 16 * ByteAt(bytes, 3 * ((i - 1) \div 2) + 2)])
u16_from_le_bytes(bytes) == from_le_bytes(bytes)
u64_from_le_bytes(bytes) == from_le_bytes(bytes)
u128_from_le_bytes(bytes) == from_le_bytes(bytes)

\* a Pubkey is its 32 bytes
Pubkey_new_from_array(bytes) == bytes
Pubkey_default == [i \in 1..32 |-> 0]

\* Each data[a..b].try_into()? below is given exactly b - a bytes, so it
\* never returns its error.
VaultAsset_load(data) ==
    [mint |-> Pubkey_new_from_array(slice(data, 0, 32)),
     idle_ata |-> Pubkey_new_from_array(slice(data, 32, 64)),
     total_value |-> u64_from_le_bytes(slice(data, 64, 72)),
     idle_ata_auth_bump |-> byte(data, 72)]

VaultLp_load(data) ==
    [mint |-> Pubkey_new_from_array(slice(data, 0, 32)),
     mint_bump |-> byte(data, 32),
     mint_auth_bump |-> byte(data, 33)]

VaultConfiguration_load(data) ==
    [max_cap |-> u64_from_le_bytes(slice(data, 0, 8)),
     start_at_ts |-> u64_from_le_bytes(slice(data, 8, 16)),
     locked_profit_degradation_duration |-> u64_from_le_bytes(slice(data, 16, 24)),
     withdrawal_waiting_period |-> u64_from_le_bytes(slice(data, 24, 32)),
     disabled_operations |-> u16_from_le_bytes(slice(data, 32, 34))]

\* FeeConfiguration::load with the redemption and issuance rates exchanged
FeeConfiguration_load_issuance_first(data) ==
    [manager_performance_fee |-> u16_from_le_bytes(slice(data, 0, 2)),
     admin_performance_fee |-> u16_from_le_bytes(slice(data, 2, 4)),
     manager_management_fee |-> u16_from_le_bytes(slice(data, 4, 6)),
     admin_management_fee |-> u16_from_le_bytes(slice(data, 6, 8)),
     redemption_fee |-> u16_from_le_bytes(slice(data, 10, 12)),
     issuance_fee |-> u16_from_le_bytes(slice(data, 8, 10)),
     protocol_performance_fee |-> u16_from_le_bytes(slice(data, 12, 14)),
     protocol_management_fee |-> u16_from_le_bytes(slice(data, 14, 16))]

FeeConfiguration_load(data) ==
    [manager_performance_fee |-> u16_from_le_bytes(slice(data, 0, 2)),
     admin_performance_fee |-> u16_from_le_bytes(slice(data, 2, 4)),
     manager_management_fee |-> u16_from_le_bytes(slice(data, 4, 6)),
     admin_management_fee |-> u16_from_le_bytes(slice(data, 6, 8)),
     redemption_fee |-> u16_from_le_bytes(slice(data, 8, 10)),
     issuance_fee |-> u16_from_le_bytes(slice(data, 10, 12)),
     protocol_performance_fee |-> u16_from_le_bytes(slice(data, 12, 14)),
     protocol_management_fee |-> u16_from_le_bytes(slice(data, 14, 16))]

FeeUpdate_load(data) ==
    [last_performance_fee_update_ts |-> u64_from_le_bytes(slice(data, 0, 8)),
     last_management_fee_update_ts |-> u64_from_le_bytes(slice(data, 8, 16))]

FeeState_load(data) ==
    [accumulated_lp_manager_fees |-> u64_from_le_bytes(slice(data, 0, 8)),
     accumulated_lp_admin_fees |-> u64_from_le_bytes(slice(data, 8, 16)),
     accumulated_lp_protocol_fees |-> u64_from_le_bytes(slice(data, 16, 24))]

HighWaterMark_load(data) ==
    [highest_asset_per_lp_decimal_bits |-> u128_from_le_bytes(slice(data, 0, 16)),
     last_updated_ts |-> u64_from_le_bytes(slice(data, 16, 24))]

LockedProfitState_load(data) ==
    [last_updated_locked_profit |-> u64_from_le_bytes(slice(data, 0, 8)),
     last_report |-> u64_from_le_bytes(slice(data, 8, 16))]

\* the ends of the slices Vault::load takes of account_data, in its order
VaultSliceEnds(d) ==
    {d + 264, d + 360, d + 504, d + 552, d + 568, d + 608, d + 616, d + 648,
     d + 656, d + 680}

NoVault == <<>>

\* Result<Vault>; no length is tested before the slices are taken.
Vault_load(account_data) ==
    IF \E to \in VaultSliceEnds(DISCRIMINATOR_SIZE) : to > Len(account_data)
    THEN [kind |-> "Panic", val |-> NoVault, err |-> "none"]
    ELSE Bind(DISCRIMINATOR_SIZE, LAMBDA d :
         [kind |-> "Ok", err |-> "none",
          val |->
            [asset |-> VaultAsset_load(slice(account_data, d + 96, d + 264)),
             lp |-> VaultLp_load(slice(account_data, d + 264, d + 360)),
             vault_configuration |->
                 VaultConfiguration_load(slice(account_data, d + 424, d + 504)),
             fee_configuration |->
                 FeeConfiguration_load(slice(account_data, d + 504, d + 552)),
             fee_update |-> FeeUpdate_load(slice(account_data, d + 552, d + 568)),
             fee_state |-> FeeState_load(slice(account_data, d + 568, d + 608)),
             dead_weight |->
                 u64_from_le_bytes(slice(account_data, d + 608, d + 616)),
             high_water_mark |->
                 HighWaterMark_load(slice(account_data, d + 616, d + 648)),
             last_updated_ts |->
                 u64_from_le_bytes(slice(account_data, d + 648, d + 656)),
             locked_profit_state |->
                 LockedProfitState_load(slice(account_data, d + 664, d + 680))]])

get_total_asset_value(vault) == vault.asset.total_value

get_total_accumulated_lp_fees(vault) ==
    ok_or(and_then(checked_add(vault.fee_state.accumulated_lp_admin_fees,
                               vault.fee_state.accumulated_lp_manager_fees, U64_MAX),
                   LAMBDA s : checked_add(s, vault.fee_state.accumulated_lp_protocol_fees,
                                          U64_MAX)),
          "MathOverflow")

get_total_lp_supply_incl_fees(vault, total_lp_supply_excl_fees) ==
    Try(get_total_accumulated_lp_fees(vault), LAMBDA fees :
        ok_or(and_then(checked_add(fees, total_lp_supply_excl_fees, U64_MAX),
                       LAMBDA s : checked_add(s, vault.dead_weight, U64_MAX)),
              "MathOverflow"))

get_total_fee_configuration_management_fee(vault) ==
    ok_or(and_then(checked_add(vault.fee_configuration.admin_management_fee,
                               vault.fee_configuration.manager_management_fee, U16_MAX),
                   LAMBDA s : checked_add(s,
                                  vault.fee_configuration.protocol_management_fee,
                                  U16_MAX)),
          "MathOverflow")

\* calculate_locked_profit without the decay: the whole amount up to the window
calculate_locked_profit_undecayed(locked_profit_state, locked_profit_degradation_duration, current_time) ==
    Bind(saturating_sub(current_time, locked_profit_state.last_report), LAMBDA duration :
    Bind(locked_profit_degradation_duration, LAMBDA degradation_duration :
        IF Gt(duration, degradation_duration) \/ degradation_duration = Zero
        THEN MathOk(Zero)
        ELSE try_from_u64(locked_profit_state.last_updated_locked_profit)))

calculate_locked_profit(locked_profit_state, locked_profit_degradation_duration, current_time) ==
    Bind(saturating_sub(current_time, locked_profit_state.last_report), LAMBDA duration :
    Bind(locked_profit_degradation_duration, LAMBDA degradation_duration :
        IF Gt(duration, degradation_duration) \/ degradation_duration = Zero
        THEN MathOk(Zero)
        ELSE Try(ok_or(and_then(checked_mul(locked_profit_state.last_updated_locked_profit,
                                    saturating_sub(degradation_duration, duration),
                                    U128_MAX),
                                LAMBDA v : checked_div(v, degradation_duration)),
                       "MathOverflow"),
                 LAMBDA locked_profit : try_from_u64(locked_profit))))

get_unlocked_asset_value(vault, current_ts) ==
    Try(calculate_locked_profit(vault.locked_profit_state,
            vault.vault_configuration.locked_profit_degradation_duration, current_ts),
        LAMBDA locked_profit :
            ok_or(checked_sub(vault.asset.total_value, locked_profit), "MathOverflow"))

-----------------------------------------------------------------------------
(* src/src/voltr_venue.rs: results and errors                              *)

REDEEM_SPLIT_INDEX == 11

\* a TradingVenueError carries a message or, as InvalidMint and NoAccountFound
\* do, a Pubkey
NoError == [variant |-> "none", msg |-> "none", key |-> Pubkey_default]
VenueError(variant, msg) == [variant |-> variant, msg |-> msg, key |-> Pubkey_default]
KeyError(variant, key) == [variant |-> variant, msg |-> "none", key |-> key]

\* Result<u64, TradingVenueError>; .map_err(|e| CheckedMathError(e.to_string()))
CheckedMath(r) ==
    [kind |-> r.kind, val |-> r.val,
     err |-> IF r.kind = "Err" THEN VenueError("CheckedMathError", r.err) ELSE NoError]

NoQuote ==
    [input_mint |-> Pubkey_default, output_mint |-> Pubkey_default, amount |-> Zero,
     expected_output |-> Zero, not_enough_liquidity |-> FALSE]

\* Result<QuoteResult, TradingVenueError>
QuoteOk(request, expected_output, not_enough_liquidity) ==
    [kind |-> "Ok",
     val |-> [input_mint |-> request.input_mint, output_mint |-> request.output_mint,
              amount |-> request.amount, expected_output |-> expected_output,
              not_enough_liquidity |-> not_enough_liquidity],
     err |-> NoError]
QuoteErr(err) == [kind |-> "Err", val |-> NoQuote, err |-> err]
QuotePanic == [kind |-> "Panic", val |-> NoQuote, err |-> NoError]
\* the ? operator on a Result<u64, TradingVenueError> that is not Ok
QuoteFail(r) == IF r.kind = "Panic" THEN QuotePanic ELSE QuoteErr(r.err)
\* the ? operator on a Result<u64, TradingVenueError> inside quote and quote_redeem
TryQuote(r, f(_)) == IF r.kind = "Ok" THEN f(r.val) ELSE QuoteFail(r)

-----------------------------------------------------------------------------
(* src/src/voltr_venue.rs: VoltrVaultVenue                                 *)

\* faulty variant: a venue that counts as initialized from its construction
new_initialized(vault_key, vault_state) ==
    [vault_key |-> vault_key,
     vault_state |-> vault_state,
     lp_mint_supply |-> Zero,
     lp_mint_decimals |-> 9,
     asset_mint_decimals |-> 0,
     asset_token_program |-> TOKEN_PROGRAM,
     asset_idle_balance |-> Zero,
     token_info |-> <<>>,
     initialized |-> TRUE]

new(vault_key, vault_state) ==
    [vault_key |-> vault_key,
     vault_state |-> vault_state,
     lp_mint_supply |-> Zero,
     lp_mint_decimals |-> 9,
     asset_mint_decimals |-> 0,
     asset_token_program |-> TOKEN_PROGRAM,
     asset_idle_balance |-> Zero,
     token_info |-> <<>>,
     initialized |-> FALSE]

\* FromAccount::from_account: Result<VoltrVaultVenue, TradingVenueError>
from_account(pubkey, account) ==
    Bind(Vault_load(account.data), LAMBDA loaded :
        IF loaded.kind = "Panic" THEN [kind |-> "Panic", val |-> NoVault, err |-> NoError]
        ELSE IF loaded.kind = "Err"
        THEN [kind |-> "Err", val |-> NoVault,
              err |-> VenueError("DeserializationFailed", loaded.err)]
        ELSE [kind |-> "Ok", val |-> new(pubkey, loaded.val), err |-> NoError])

\* faulty variant: the estimate without its test for a fee of the whole asset value
estimate_management_fee_lp_unguarded(self, current_ts, total_asset_value, total_lp_supply_incl_fees) ==
    Try(CheckedMath(get_total_fee_configuration_management_fee(self.vault_state)),
        LAMBDA management_fee_bps :
    IF \/ self.vault_state.fee_update.last_management_fee_update_ts = Zero
       \/ total_asset_value = Zero
       \/ management_fee_bps = Zero
    THEN CheckedMath(MathOk(Zero))
    ELSE Bind(saturating_sub(current_ts,
                  self.vault_state.fee_update.last_management_fee_update_ts),
              LAMBDA time_elapsed :
         IF time_elapsed = Zero THEN CheckedMath(MathOk(Zero))
         ELSE Try(CheckedMath(calc_management_fee_amount_in_asset(
                      time_elapsed, total_asset_value, management_fee_bps)),
                  LAMBDA fee_amount_in_asset :
              IF fee_amount_in_asset = Zero
              THEN CheckedMath(MathOk(Zero))
              ELSE CheckedMath(calc_fee_lp_to_mint(
                       fee_amount_in_asset, total_lp_supply_incl_fees,
                       total_asset_value)))))

estimate_management_fee_lp(self, current_ts, total_asset_value, total_lp_supply_incl_fees) ==
    Try(CheckedMath(get_total_fee_configuration_management_fee(self.vault_state)),
        LAMBDA management_fee_bps :
    IF \/ self.vault_state.fee_update.last_management_fee_update_ts = Zero
       \/ total_asset_value = Zero
       \/ management_fee_bps = Zero
    THEN CheckedMath(MathOk(Zero))
    ELSE Bind(saturating_sub(current_ts,
                  self.vault_state.fee_update.last_management_fee_update_ts),
              LAMBDA time_elapsed :
         IF time_elapsed = Zero THEN CheckedMath(MathOk(Zero))
         ELSE Try(CheckedMath(calc_management_fee_amount_in_asset(
                      time_elapsed, total_asset_value, management_fee_bps)),
                  LAMBDA fee_amount_in_asset :
              IF \/ fee_amount_in_asset = Zero
                 \/ Ge(fee_amount_in_asset, total_asset_value)
              THEN CheckedMath(MathOk(Zero))
              ELSE CheckedMath(calc_fee_lp_to_mint(
                       fee_amount_in_asset, total_lp_supply_incl_fees,
                       total_asset_value)))))

\* faulty variant: an idle balance equal to the output counts as short
idle_balance_short_or_equal(asset_idle_balance, asset_to_redeem) ==
    Le(asset_idle_balance, asset_to_redeem)

\* the liquidity test of quote_redeem
idle_balance_short(asset_idle_balance, asset_to_redeem) ==
    Lt(asset_idle_balance, asset_to_redeem)

\* faulty variant: quote_redeem without its test of the waiting period
quote_redeem_any_waiting_period(self, request, current_ts, total_lp_supply_after_mgmt_fee) ==
    TryQuote(CheckedMath(get_unlocked_asset_value(self.vault_state, current_ts)),
             LAMBDA total_unlocked_asset :
    TryQuote(CheckedMath(calc_withdraw_asset_to_redeem(
                 request.amount, total_lp_supply_after_mgmt_fee, total_unlocked_asset,
                 self.vault_state.fee_configuration.redemption_fee)),
             LAMBDA asset_to_redeem :
    IF idle_balance_short(self.asset_idle_balance, asset_to_redeem)
    THEN QuoteOk(request, Zero, TRUE)
    ELSE QuoteOk(request, asset_to_redeem, FALSE)))

\* faulty variant: quote_redeem answering a short idle balance with an error
quote_redeem_short_is_error(self, request, current_ts, total_lp_supply_after_mgmt_fee) ==
    IF self.vault_state.vault_configuration.withdrawal_waiting_period # Zero
    THEN QuoteErr(VenueError("AmmMethodError",
             "Withdrawal waiting period must be zero for instant redeems"))
    ELSE TryQuote(CheckedMath(get_unlocked_asset_value(self.vault_state, current_ts)),
                  LAMBDA total_unlocked_asset :
         TryQuote(CheckedMath(calc_withdraw_asset_to_redeem(
                      request.amount, total_lp_supply_after_mgmt_fee,
                      total_unlocked_asset,
                      self.vault_state.fee_configuration.redemption_fee)),
                  LAMBDA asset_to_redeem :
         IF idle_balance_short(self.asset_idle_balance, asset_to_redeem)
         THEN QuoteErr(VenueError("CheckedMathError", "Insufficient Idle Balance"))
         ELSE QuoteOk(request, asset_to_redeem, FALSE)))

quote_redeem(self, request, current_ts, total_lp_supply_after_mgmt_fee) ==
    IF self.vault_state.vault_configuration.withdrawal_waiting_period # Zero
    THEN QuoteErr(VenueError("AmmMethodError",
             "Withdrawal waiting period must be zero for instant redeems"))
    ELSE TryQuote(CheckedMath(get_unlocked_asset_value(self.vault_state, current_ts)),
                  LAMBDA total_unlocked_asset :
         TryQuote(CheckedMath(calc_withdraw_asset_to_redeem(
                      request.amount, total_lp_supply_after_mgmt_fee,
                      total_unlocked_asset,
                      self.vault_state.fee_configuration.redemption_fee)),
                  LAMBDA asset_to_redeem :
         IF idle_balance_short(self.asset_idle_balance, asset_to_redeem)
         THEN QuoteOk(request, Zero, TRUE)
         ELSE QuoteOk(request, asset_to_redeem, FALSE)))

is_deposit(self, request) ==
    /\ request.input_mint = self.vault_state.asset.mint
    /\ request.output_mint = self.vault_state.lp.mint

is_redeem(self, request) ==
    /\ request.input_mint = self.vault_state.lp.mint
    /\ request.output_mint = self.vault_state.asset.mint

\* faulty variant: the fallback timestamp taken from the high-water mark
current_timestamp_of_high_water_mark(self, clock) ==
    IF clock.after_epoch THEN clock.secs
    ELSE self.vault_state.high_water_mark.last_updated_ts

\* SystemTime::now().duration_since(UNIX_EPOCH).map(|d| d.as_secs())
\*     .unwrap_or(self.vault_state.last_updated_ts)
\* clock is what the system clock reads: seconds since the epoch, or a time
\* before the epoch
current_timestamp(self, clock) ==
    IF clock.after_epoch THEN clock.secs ELSE self.vault_state.last_updated_ts

\* faulty variant: the new total computed with an addition that wraps around
exceeds_max_cap_wrapping(max_cap, total_asset_value, amount) ==
    /\ Gt(max_cap, Zero)
    /\ Gt(Mod(Add(total_asset_value, amount), Add(U64_MAX, One)), max_cap)

\* the capacity test of the deposit path
exceeds_max_cap(max_cap, total_asset_value, amount) ==
    /\ Gt(max_cap, Zero)
    /\ Gt(saturating_add(total_asset_value, amount, U64_MAX), max_cap)

\* faulty variant: a mint below the dead weight is returned whole
deposit_result_small_unburnt(self, request, lp_before_deadweight) ==
    IF self.vault_state.dead_weight = Zero /\ Ge(lp_before_deadweight, N(DEAD_WEIGHT))
    THEN QuoteOk(request, saturating_sub(lp_before_deadweight, N(DEAD_WEIGHT)), FALSE)
    ELSE QuoteOk(request, lp_before_deadweight, FALSE)

\* faulty variant: a mint equal to the dead weight counts as too small
deposit_result_burn_inclusive(self, request, lp_before_deadweight) ==
    IF self.vault_state.dead_weight = Zero
    THEN IF Le(lp_before_deadweight, N(DEAD_WEIGHT))
         THEN QuoteOk(request, Zero, TRUE)
         ELSE QuoteOk(request, saturating_sub(lp_before_deadweight, N(DEAD_WEIGHT)),
                      FALSE)
    ELSE QuoteOk(request, lp_before_deadweight, FALSE)

\* the end of the deposit path: the dead-weight burn
deposit_result(self, request, lp_before_deadweight) ==
    IF self.vault_state.dead_weight = Zero
    THEN IF Lt(lp_before_deadweight, N(DEAD_WEIGHT))
         THEN QuoteOk(request, Zero, TRUE)
         ELSE QuoteOk(request, saturating_sub(lp_before_deadweight, N(DEAD_WEIGHT)),
                      FALSE)
    ELSE QuoteOk(request, lp_before_deadweight, FALSE)

\* faulty variant: the deposit priced against the supply before the management fee
lp_before_deadweight_of_supply_before_fee(self, amount, total_asset_value, total_lp_supply_incl_fees, total_lp_supply_after_mgmt_fee) ==
    IF total_lp_supply_incl_fees = Zero
    THEN CheckedMath(calc_init_lp_to_mint(amount, self.asset_mint_decimals,
                                          self.lp_mint_decimals))
    ELSE CheckedMath(calc_deposit_lp_to_mint(
             amount, total_lp_supply_incl_fees, total_asset_value,
             self.vault_state.fee_configuration.issuance_fee))

\* the share amount the deposit path prices before the dead-weight burn
lp_before_deadweight_of(self, amount, total_asset_value, total_lp_supply_incl_fees, total_lp_supply_after_mgmt_fee) ==
    IF total_lp_supply_incl_fees = Zero
    THEN CheckedMath(calc_init_lp_to_mint(amount, self.asset_mint_decimals,
                                          self.lp_mint_decimals))
    ELSE CheckedMath(calc_deposit_lp_to_mint(
             amount, total_lp_supply_after_mgmt_fee, total_asset_value,
             self.vault_state.fee_configuration.issuance_fee))

\* the deposit path of quote
quote_deposit(self, request, total_asset_value, total_lp_supply_incl_fees, total_lp_supply_after_mgmt_fee) ==
    IF exceeds_max_cap(self.vault_state.vault_configuration.max_cap,
                       total_asset_value, request.amount)
    THEN QuoteOk(request, Zero, TRUE)
    ELSE TryQuote(lp_before_deadweight_of(self, request.amount, total_asset_value,
                      total_lp_supply_incl_fees, total_lp_supply_after_mgmt_fee),
                  LAMBDA lp_before_deadweight :
                      deposit_result(self, request, lp_before_deadweight))

\* total_lp_supply_incl_fees.checked_add(mgmt_fee_lp).ok_or_else(..)
supply_after_mgmt_fee(total_lp_supply_incl_fees, mgmt_fee_lp) ==
    Bind(checked_add(total_lp_supply_incl_fees, mgmt_fee_lp, U64_MAX), LAMBDA s :
        IF s.some THEN CheckedMath(MathOk(s.v))
        ELSE [kind |-> "Err", val |-> Zero,
              err |-> VenueError("CheckedMathError",
                          "LP supply overflow after management fee")])

\* quote from the supply computation on: what it does with a valid pair of
\* mints and an amount that is not zero
quote_nonzero(self, request, clock) ==
    Bind(get_total_asset_value(self.vault_state), LAMBDA total_asset_value :
    TryQuote(CheckedMath(get_total_lp_supply_incl_fees(self.vault_state,
                                                       self.lp_mint_supply)),
             LAMBDA total_lp_supply_incl_fees :
    Bind(current_timestamp(self, clock), LAMBDA current_ts :
    TryQuote(estimate_management_fee_lp(self, current_ts, total_asset_value,
                                        total_lp_supply_incl_fees),
             LAMBDA mgmt_fee_lp :
    TryQuote(supply_after_mgmt_fee(total_lp_supply_incl_fees, mgmt_fee_lp),
             LAMBDA total_lp_supply_after_mgmt_fee :
    IF is_redeem(self, request)
    THEN quote_redeem(self, request, current_ts, total_lp_supply_after_mgmt_fee)
    ELSE quote_deposit(self, request, total_asset_value,
                       total_lp_supply_incl_fees,
                       total_lp_supply_after_mgmt_fee))))))

\* faulty variant: quote without its test for a zero amount
quote_without_zero_check(self, request, clock) ==
    IF ~is_deposit(self, request) /\ ~is_redeem(self, request)
    THEN QuoteErr(KeyError("InvalidMint", request.input_mint))
    ELSE quote_nonzero(self, request, clock)

\* faulty variant: quote testing for a zero amount before it tests the mints
quote_zero_check_first(self, request, clock) ==
    IF request.amount = Zero
    THEN QuoteOk([request EXCEPT !.amount = Zero], Zero, FALSE)
    ELSE IF ~is_deposit(self, request) /\ ~is_redeem(self, request)
    THEN QuoteErr(KeyError("InvalidMint", request.input_mint))
    ELSE quote_nonzero(self, request, clock)

quote(self, request, clock) ==
    IF ~is_deposit(self, request) /\ ~is_redeem(self, request)
    THEN QuoteErr(KeyError("InvalidMint", request.input_mint))
    ELSE IF request.amount = Zero
    THEN QuoteOk([request EXCEPT !.amount = Zero], Zero, FALSE)
    ELSE quote_nonzero(self, request, clock)

-----------------------------------------------------------------------------
(* src/src/voltr_venue.rs: instructions.  Derived addresses are held as    *)
(* the derivation that names them.                                         *)

AccountMeta_new(pubkey, is_signer) ==
    [pubkey |-> pubkey, is_signer |-> is_signer, is_writable |-> TRUE]
AccountMeta_new_readonly(pubkey, is_signer) ==
    [pubkey |-> pubkey, is_signer |-> is_signer, is_writable |-> FALSE]

Pda(seed, key) == <<"pda", seed, key>>
Ata(owner, mint, token_program) == <<"ata", owner, mint, token_program>>
Key(pubkey) == <<"key", pubkey>>

NoInstruction == [program_id |-> "none", accounts |-> <<>>, data |-> <<>>]
InstructionOk(ix) == [kind |-> "Ok", val |-> ix, err |-> NoError]
InstructionErr(err) == [kind |-> "Err", val |-> NoInstruction, err |-> err]

build_deposit_instruction(self, deposit_amount, user) ==
    LET protocol_pda == Pda("protocol", "none")
        vault_lp_mint_pda == Pda("vault_lp_mint", self.vault_key)
        vault_asset_idle_auth_pda == Pda("vault_asset_idle_auth", self.vault_key)
        vault_lp_mint_auth_pda == Pda("vault_lp_mint_auth", self.vault_key)
        user_source_ata == Ata(user, Key(self.vault_state.asset.mint),
                               self.asset_token_program)
        user_dest_ata == Ata(user, vault_lp_mint_pda, TOKEN_PROGRAM)
    IN  InstructionOk(
            [program_id |-> VOLTR_VAULT_PROGRAM,
             accounts |-> <<
                 AccountMeta_new_readonly(Key(user), TRUE),
                 AccountMeta_new_readonly(protocol_pda, FALSE),
                 AccountMeta_new(Key(self.vault_key), FALSE),
                 AccountMeta_new_readonly(Key(self.vault_state.asset.mint), FALSE),
                 AccountMeta_new(vault_lp_mint_pda, FALSE),
                 AccountMeta_new(user_source_ata, FALSE),
                 AccountMeta_new(Key(self.vault_state.asset.idle_ata), FALSE),
                 AccountMeta_new_readonly(vault_asset_idle_auth_pda, FALSE),
                 AccountMeta_new(user_dest_ata, FALSE),
                 AccountMeta_new_readonly(vault_lp_mint_auth_pda, FALSE),
                 AccountMeta_new_readonly(Key(self.asset_token_program), FALSE),
                 AccountMeta_new_readonly(Key(TOKEN_PROGRAM), FALSE),
                 AccountMeta_new_readonly(Key("system_program"), FALSE) >>,
             data |-> <<"global:deposit_vault", deposit_amount>>])

build_redeem_dummy_instruction(self, user) ==
    LET protocol_pda == Pda("protocol", "none")
        vault_lp_mint_pda == Pda("vault_lp_mint", self.vault_key)
        vault_asset_idle_auth_pda == Pda("vault_asset_idle_auth", self.vault_key)
        receipt_pda == Pda("request_withdraw_vault_receipt", <<self.vault_key, user>>)
        receipt_lp_ata == Ata(receipt_pda, vault_lp_mint_pda, TOKEN_PROGRAM)
        user_lp_ata == Ata(user, vault_lp_mint_pda, TOKEN_PROGRAM)
        user_asset_ata == Ata(user, Key(self.vault_state.asset.mint),
                              self.asset_token_program)
    IN  InstructionOk(
            [program_id |-> VOLTR_VAULT_PROGRAM,
             accounts |-> <<
                 AccountMeta_new(Key(user), TRUE),
                 AccountMeta_new_readonly(Key(user), TRUE),
                 AccountMeta_new_readonly(protocol_pda, FALSE),
                 AccountMeta_new_readonly(Key(self.vault_key), FALSE),
                 AccountMeta_new_readonly(vault_lp_mint_pda, FALSE),
                 AccountMeta_new(user_lp_ata, FALSE),
                 AccountMeta_new(receipt_lp_ata, FALSE),
                 AccountMeta_new(receipt_pda, FALSE),
                 AccountMeta_new_readonly(Key("ata_program"), FALSE),
                 AccountMeta_new_readonly(Key(TOKEN_PROGRAM), FALSE),
                 AccountMeta_new_readonly(Key("system_program"), FALSE),
                 AccountMeta_new(Key(user), TRUE),
                 AccountMeta_new_readonly(protocol_pda, FALSE),
                 AccountMeta_new(Key(self.vault_key), FALSE),
                 AccountMeta_new_readonly(Key(self.vault_state.asset.mint), FALSE),
                 AccountMeta_new(vault_lp_mint_pda, FALSE),
                 AccountMeta_new(receipt_lp_ata, FALSE),
                 AccountMeta_new(Key(self.vault_state.asset.idle_ata), FALSE),
                 AccountMeta_new(vault_asset_idle_auth_pda, FALSE),
                 AccountMeta_new(user_asset_ata, FALSE),
                 AccountMeta_new(receipt_pda, FALSE),
                 AccountMeta_new_readonly(Key(self.asset_token_program), FALSE),
                 AccountMeta_new_readonly(Key(TOKEN_PROGRAM), FALSE),
                 AccountMeta_new_readonly(Key("system_program"), FALSE) >>,
             data |-> <<>>])

generate_swap_instruction(self, request, user) ==
    IF ~is_deposit(self, request) /\ ~is_redeem(self, request)
    THEN InstructionErr(KeyError("InvalidMint", request.input_mint))
    ELSE IF is_redeem(self, request)
    THEN build_redeem_dummy_instruction(self, user)
    ELSE build_deposit_instruction(self, request.amount, user)

-----------------------------------------------------------------------------
(* src/src/voltr_venue.rs: update_state.  `fetched` is what                *)
(* cache.get_accounts(&pubkeys).await returned: an error, or one slot per  *)
(* requested key, each absent or an account [owner, data].  The decoders   *)
(* of the token programs and TokenInfo::new are outside the repository: an *)
(* account's data says whether the decoder the code applies to it accepts  *)
(* it (unpacks) and whether TokenInfo::new accepts it (token_info_ok).     *)

Present(account) == account.present

\* spl_token::state::Mint::unpack, StateWithExtensions::<Mint22>::unpack
Mint_unpack(data) == [ok |-> data.unpacks, supply |-> data.supply,
                      decimals |-> data.decimals]
\* spl_token::state::Account::unpack, StateWithExtensions::<Account>::unpack
Account_unpack(data) == [ok |-> data.unpacks, amount |-> data.amount]
\* TokenInfo::new(&mint, account, u64::MAX)
TokenInfo_new(mint, account) ==
    [ok |-> account.data.token_info_ok,
     val |-> [pubkey |-> mint, decimals |-> account.data.decimals,
              owner |-> account.owner]]

UpdateOk == [kind |-> "Ok", err |-> NoError]
UpdateErr(variant, msg) == [kind |-> "Err", err |-> VenueError(variant, msg)]
UpdateKeyErr(variant, key) == [kind |-> "Err", err |-> KeyError(variant, key)]
UpdatePanic == [kind |-> "Panic", err |-> NoError]

\* [self: the venue after the call, res: what the call returned,
\*  stage: how many of its assignments the call made]
update_state(self, fetched) ==
    IF fetched.kind # "Ok"
    THEN [self |-> self, res |-> UpdateErr(fetched.err, "get_accounts"), stage |-> 0]
    ELSE
    LET accounts == fetched.accounts
        vault_account == accounts[1]
    IN
    IF ~Present(vault_account)
    THEN [self |-> self, res |-> UpdateKeyErr("NoAccountFound", self.vault_key),
          stage |-> 0]
    ELSE
    LET loaded == Vault_load(vault_account.data)
    IN
    IF loaded.kind = "Panic"
    THEN [self |-> self, res |-> UpdatePanic, stage |-> 0]
    ELSE
    LET self1 == [self EXCEPT !.vault_state = loaded.val]
        lp_mint_account == accounts[2]
    IN
    IF ~Present(lp_mint_account)
    THEN [self |-> self1,
          res |-> UpdateKeyErr("NoAccountFound", self1.vault_state.lp.mint), stage |-> 1]
    ELSE
    LET lp_mint == Mint_unpack(lp_mint_account.data)
    IN
    IF ~lp_mint.ok
    THEN [self |-> self1, res |-> UpdateErr("DeserializationFailed", "lp mint"),
          stage |-> 1]
    ELSE
    LET self2 == [self1 EXCEPT !.lp_mint_supply = lp_mint.supply,
                               !.lp_mint_decimals = lp_mint.decimals]
        asset_mint_account == accounts[3]
    IN
    IF ~Present(asset_mint_account)
    THEN [self |-> self2,
          res |-> UpdateKeyErr("NoAccountFound", self2.vault_state.asset.mint),
          stage |-> 2]
    ELSE
    LET self3 == [self2 EXCEPT !.asset_token_program = asset_mint_account.owner]
        mint == Mint_unpack(asset_mint_account.data)
    IN
    IF ~mint.ok
    THEN [self |-> self3, res |-> UpdateErr("DeserializationFailed", "asset mint"),
          stage |-> 3]
    ELSE
    LET self4 == [self3 EXCEPT !.asset_mint_decimals = mint.decimals]
        idle_ata_account == accounts[4]
    IN
    IF ~Present(idle_ata_account)
    THEN [self |-> self4,
          res |-> UpdateKeyErr("NoAccountFound", self4.vault_state.asset.idle_ata),
          stage |-> 4]
    ELSE
    LET idle == Account_unpack(idle_ata_account.data)
    IN
    IF ~idle.ok
    THEN [self |-> self4, res |-> UpdateErr("DeserializationFailed", "idle account"),
          stage |-> 4]
    ELSE
    LET self5 == [self4 EXCEPT !.asset_idle_balance = idle.amount]
        asset_info == TokenInfo_new(self5.vault_state.asset.mint, asset_mint_account)
        lp_info == TokenInfo_new(self5.vault_state.lp.mint, lp_mint_account)
    IN
    IF ~asset_info.ok
    THEN [self |-> self5, res |-> UpdateErr("TokenInfo", "asset mint"), stage |-> 5]
    ELSE IF ~lp_info.ok
    THEN [self |-> self5, res |-> UpdateErr("TokenInfo", "lp mint"), stage |-> 5]
    ELSE [self |-> [self5 EXCEPT !.token_info = <<asset_info.val, lp_info.val>>,
                                 !.initialized = TRUE],
          res |-> UpdateOk, stage |-> 6]

-----------------------------------------------------------------------------
(* The values the model draws its inputs from.                             *)

\* numbers of steps: amounts are multiples of AmountUnit, clock readings lie
\* ClockUnit seconds apart
AmountSteps == 2
ClockSteps == 1
MaxRefreshes == 2

AmountUnit == N(500)
ClockUnit == N(50)
\* a timestamp of the present day, in seconds since the epoch
T0 == N(1700000000)

RECURSIVE Times(_, _)
Times(k, unit) == IF k = 0 THEN Zero ELSE Add(unit, Times(k - 1, unit))

Amounts == {Times(k, AmountUnit) : k \in 0..AmountSteps} \cup {U64_MAX}

\* what the system clock reads when quote asks it: a time before the epoch, or
\* a time after T0
Clocks ==
    {[after_epoch |-> FALSE, secs |-> Zero]}
    \cup {[after_epoch |-> TRUE, secs |-> Add(T0, Times(k, ClockUnit))] : k \in 1..ClockSteps}

\* the 32 bytes of an account address, all of them b
KeyOf(b) == [i \in 1..32 |-> b]
AssetMint == KeyOf(1)
LpMint == KeyOf(2)
OtherMint == KeyOf(3)
IdleAta == KeyOf(4)
VaultKey == KeyOf(5)
User == KeyOf(6)

Mints == {AssetMint, LpMint, OtherMint}
Users == {User}

QuoteRequests ==
    {[input_mint |-> i, output_mint |-> o, amount |-> a] :
        i \in Mints, o \in Mints, a \in Amounts}

\* A vault as the vault program keeps it.
BaseVault ==
    [asset |-> [mint |-> AssetMint, idle_ata |-> IdleAta,
                total_value |-> N(2000), idle_ata_auth_bump |-> 255],
     lp |-> [mint |-> LpMint, mint_bump |-> 255, mint_auth_bump |-> 254],
     vault_configuration |->
         [max_cap |-> Zero, start_at_ts |-> Zero,
          locked_profit_degradation_duration |-> Zero,
          withdrawal_waiting_period |-> Zero, disabled_operations |-> Zero],
     fee_configuration |->
         [manager_performance_fee |-> Zero, admin_performance_fee |-> Zero,
          manager_management_fee |-> Zero, admin_management_fee |-> Zero,
          redemption_fee |-> Zero, issuance_fee |-> Zero,
          protocol_performance_fee |-> Zero, protocol_management_fee |-> Zero],
     fee_update |-> [last_performance_fee_update_ts |-> Zero,
                     last_management_fee_update_ts |-> Zero],
     fee_state |-> [accumulated_lp_manager_fees |-> Zero,
                    accumulated_lp_admin_fees |-> Zero,
                    accumulated_lp_protocol_fees |-> Zero],
     dead_weight |-> N(DEAD_WEIGHT),
     high_water_mark |-> [highest_asset_per_lp_decimal_bits |-> Zero,
                          last_updated_ts |-> Zero],
     last_updated_ts |-> T0,
     locked_profit_state |-> [last_updated_locked_profit |-> Zero,
                              last_report |-> Zero]]

\* total asset value, share supply of the mint, dead weight, accumulated fee shares
BalanceSheets ==
    {[total_value |-> N(2000), lp_mint_supply |-> N(1000), dead_weight |-> N(DEAD_WEIGHT),
      fees |-> <<Zero, Zero, Zero>>],
     [total_value |-> N(2000), lp_mint_supply |-> N(2000), dead_weight |-> Zero,
      fees |-> <<Zero, Zero, Zero>>],
     [total_value |-> N(2000), lp_mint_supply |-> N(1977), dead_weight |-> Zero,
      fees |-> <<N(5), N(7), N(11)>>],
     [total_value |-> Zero, lp_mint_supply |-> Zero, dead_weight |-> Zero,
      fees |-> <<Zero, Zero, Zero>>],
     [total_value |-> N(2000), lp_mint_supply |-> Zero, dead_weight |-> Zero,
      fees |-> <<Zero, Zero, Zero>>],
     [total_value |-> Zero, lp_mint_supply |-> N(1000), dead_weight |-> N(DEAD_WEIGHT),
      fees |-> <<Zero, Zero, Zero>>],
     [total_value |-> N(2000), lp_mint_supply |-> N(1000), dead_weight |-> N(DEAD_WEIGHT),
      fees |-> <<U64_MAX, One, Zero>>],
     [total_value |-> U64_MAX, lp_mint_supply |-> N(1000), dead_weight |-> N(DEAD_WEIGHT),
      fees |-> <<Zero, Zero, Zero>>]}

MaxCaps == {Zero, N(2500), U64_MAX}
WaitingPeriods == {Zero, N(3600)}

\* manager, admin and protocol management fee, redemption fee, issuance fee,
\* last management fee update
FeeSettings ==
    {[mgmt |-> <<Zero, Zero, Zero>>, redemption_fee |-> Zero, issuance_fee |-> Zero,
      last_ts |-> Zero],
     [mgmt |-> <<N(100), N(100), Zero>>, redemption_fee |-> N(100), issuance_fee |-> N(50),
      last_ts |-> T0],
     [mgmt |-> <<U16_MAX, One, Zero>>, redemption_fee |-> N(MAX_FEE_BPS + 1),
      issuance_fee |-> N(MAX_FEE_BPS + 1), last_ts |-> T0]}

\* last locked profit, its report time, the degradation duration
LockedProfits ==
    {[profit |-> Zero, last_report |-> Zero, duration |-> Zero],
     [profit |-> N(500), last_report |-> T0, duration |-> N(100)]}

IdleBalances == {Zero, N(500), U64_MAX}
AssetDecimals == {6, 39}

\* what only the deposit path reads, and what only the redeem path reads
DepositSides == [max_cap : MaxCaps, asset_mint_decimals : AssetDecimals]
RedeemSides == [withdrawal_waiting_period : WaitingPeriods,
                locked_profit : LockedProfits, asset_idle_balance : IdleBalances]
PlainDepositSide == [max_cap |-> Zero, asset_mint_decimals |-> 6]
PlainRedeemSide ==
    [withdrawal_waiting_period |-> Zero,
     locked_profit |-> [profit |-> Zero, last_report |-> Zero, duration |-> Zero],
     asset_idle_balance |-> N(500)]
\* every deposit side with the plain redeem side, and the other way round
Sides == (DepositSides \X {PlainRedeemSide}) \cup ({PlainDepositSide} \X RedeemSides)

VaultOf(b, cap, wait, f, lock) ==
    [BaseVault EXCEPT
        !.asset.total_value = b.total_value,
        !.dead_weight = b.dead_weight,
        !.fee_state = [accumulated_lp_manager_fees |-> b.fees[1],
                       accumulated_lp_admin_fees |-> b.fees[2],
                       accumulated_lp_protocol_fees |-> b.fees[3]],
        !.vault_configuration.max_cap = cap,
        !.vault_configuration.withdrawal_waiting_period = wait,
        !.vault_configuration.locked_profit_degradation_duration = lock.duration,
        !.fee_configuration.manager_management_fee = f.mgmt[1],
        !.fee_configuration.admin_management_fee = f.mgmt[2],
        !.fee_configuration.protocol_management_fee = f.mgmt[3],
        !.fee_configuration.redemption_fee = f.redemption_fee,
        !.fee_configuration.issuance_fee = f.issuance_fee,
        !.fee_update.last_management_fee_update_ts = f.last_ts,
        !.locked_profit_state = [last_updated_locked_profit |-> lock.profit,
                                 last_report |-> lock.last_report]]

\* x.to_le_bytes() on n bytes, as the vault program writes an integer: byte j
\* of x, counted from 0. Three bytes take two limbs of 12 bits.
ByteOf(x, j) ==
    CASE j % 3 = 0 -> Limb(x, 2 * (j \div 3) + 1) % 256
      [] j % 3 = 1 -> (Limb(x, 2 * (j \div 3) + 1) \div 256)
                          + 16 * (Limb(x, 2 * (j \div 3) + 2) % 16)
      [] OTHER -> Limb(x, 2 * (j \div 3) + 2) \div 16
to_le_bytes(x, n) == [i \in 1..n |-> ByteOf(x, i - 1)]

Pad(n, b) == [i \in 1..n |-> b]
PadTo(bytes, n, b) == bytes \o Pad(n - Len(bytes), b)

\* The bytes of a vault account that holds the vault: the layout Vault::load
\* reads, the discriminator and every byte it does not read set to filler.
VaultBytes(vault, filler) ==
    Pad(DISCRIMINATOR_SIZE + 96, filler)
    \o PadTo(vault.asset.mint \o vault.asset.idle_ata
                 \o to_le_bytes(vault.asset.total_value, 8)
                 \o <<vault.asset.idle_ata_auth_bump>>, 168, filler)
    \o PadTo(vault.lp.mint \o <<vault.lp.mint_bump, vault.lp.mint_auth_bump>>,
             96, filler)
    \o Pad(64, filler)
    \o PadTo(to_le_bytes(vault.vault_configuration.max_cap, 8)
                 \o to_le_bytes(vault.vault_configuration.start_at_ts, 8)
                 \o to_le_bytes(vault.vault_configuration.locked_profit_degradation_duration, 8)
                 \o to_le_bytes(vault.vault_configuration.withdrawal_waiting_period, 8)
                 \o to_le_bytes(vault.vault_configuration.disabled_operations, 2),
             80, filler)
    \o PadTo(to_le_bytes(vault.fee_configuration.manager_performance_fee, 2)
                 \o to_le_bytes(vault.fee_configuration.admin_performance_fee, 2)
                 \o to_le_bytes(vault.fee_configuration.manager_management_fee, 2)
                 \o to_le_bytes(vault.fee_configuration.admin_management_fee, 2)
                 \o to_le_bytes(vault.fee_configuration.redemption_fee, 2)
                 \o to_le_bytes(vault.fee_configuration.issuance_fee, 2)
                 \o to_le_bytes(vault.fee_configuration.protocol_performance_fee, 2)
                 \o to_le_bytes(vault.fee_configuration.protocol_management_fee, 2),
             48, filler)
    \o to_le_bytes(vault.fee_update.last_performance_fee_update_ts, 8)
    \o to_le_bytes(vault.fee_update.last_management_fee_update_ts, 8)
    \o PadTo(to_le_bytes(vault.fee_state.accumulated_lp_manager_fees, 8)
                 \o to_le_bytes(vault.fee_state.accumulated_lp_admin_fees, 8)
                 \o to_le_bytes(vault.fee_state.accumulated_lp_protocol_fees, 8),
             40, filler)
    \o to_le_bytes(vault.dead_weight, 8)
    \o PadTo(to_le_bytes(vault.high_water_mark.highest_asset_per_lp_decimal_bits, 16)
                 \o to_le_bytes(vault.high_water_mark.last_updated_ts, 8),
             32, filler)
    \o to_le_bytes(vault.last_updated_ts, 8)
    \o Pad(8, filler)
    \o to_le_bytes(vault.locked_profit_state.last_updated_locked_profit, 8)
    \o to_le_bytes(vault.locked_profit_state.last_report, 8)

\* the accounts a refresh fetches, for a vault in the given condition
VaultAccount(vault) ==
    [present |-> TRUE, owner |-> VOLTR_VAULT_PROGRAM, data |-> VaultBytes(vault, 0)]
MintAccount(owner, supply, decimals) ==
    [present |-> TRUE, owner |-> owner,
     data |-> [unpacks |-> TRUE, token_info_ok |-> TRUE, supply |-> supply,
               decimals |-> decimals]]
TokenAccount(owner, amount) ==
    [present |-> TRUE, owner |-> owner, data |-> [unpacks |-> TRUE, amount |-> amount]]
FetchOk(accounts) == [kind |-> "Ok", err |-> "none", accounts |-> accounts]

\* The venue a successful refresh leaves.
RefreshedVenue(vault, lp_mint_supply, lp_decimals, asset_decimals, idle) ==
    update_state(new(VaultKey, vault),
        FetchOk(<<VaultAccount(vault),
                  MintAccount(TOKEN_PROGRAM, lp_mint_supply, lp_decimals),
                  MintAccount(TOKEN_PROGRAM, Zero, asset_decimals),
                  TokenAccount(TOKEN_PROGRAM, idle)>>)).self

\* the decimals a fetched share mint can carry besides the 9 of a vault's mint
OtherLpDecimals == {6}

\* venues refreshed from a share mint of 9 decimals in every condition, and
\* venues with no shares refreshed from a share mint of other decimals
QuoteVenues ==
    {RefreshedVenue(VaultOf(b, s[1].max_cap, s[2].withdrawal_waiting_period, f,
                            s[2].locked_profit),
                    b.lp_mint_supply, 9, s[1].asset_mint_decimals,
                    s[2].asset_idle_balance) :
        b \in BalanceSheets, f \in FeeSettings, s \in Sides}
    \cup
    {RefreshedVenue(VaultOf(b, PlainDepositSide.max_cap,
                            PlainRedeemSide.withdrawal_waiting_period, f,
                            PlainRedeemSide.locked_profit),
                    b.lp_mint_supply, d, PlainDepositSide.asset_mint_decimals,
                    PlainRedeemSide.asset_idle_balance) :
        b \in {e \in BalanceSheets : e.lp_mint_supply = Zero},
        f \in FeeSettings, d \in OtherLpDecimals}

-----------------------------------------------------------------------------
(* The calls.                                                              *)

NoRequest ==
    [input_mint |-> Pubkey_default, output_mint |-> Pubkey_default, amount |-> Zero]
NoClock == [after_epoch |-> FALSE, secs |-> Zero]
NoFetch == [kind |-> "none", err |-> "none", accounts |-> <<>>]
NoOrigin == [vault_state |-> 0, lp_mint |-> 0, asset_token_program |-> 0,
             asset_mint_decimals |-> 0, asset_idle_balance |-> 0, token_info |-> 0]

\* what `last` holds after construction
Constructed ==
    [op |-> "new", request |-> NoRequest, clock |-> NoClock, fetched |-> NoFetch,
     quoted |-> QuoteErr(NoError), instruction |-> InstructionErr(NoError),
     updated |-> UpdateOk, read |-> NoOrigin, args |-> <<>>, returned |-> MathOk(Zero)]

Crashed == last.quoted.kind = "Panic" \/ last.updated.kind = "Panic"

\* faulty variant: a quote that keeps the timestamp it priced at in the venue
Quote_keeping_timestamp(request, clock) ==
    /\ ~Crashed
    /\ last' = [Constructed EXCEPT !.op = "quote", !.request = request,
                                   !.clock = clock,
                                   !.quoted = quote(venue, request, clock),
                                   !.read = origin]
    /\ venue' = [venue EXCEPT !.vault_state.last_updated_ts =
                                  current_timestamp(venue, clock)]
    /\ UNCHANGED <<overflow_checks, origin, refreshes>>

Quote(request, clock) ==
    /\ ~Crashed
    /\ last' = [Constructed EXCEPT !.op = "quote", !.request = request,
                                   !.clock = clock,
                                   !.quoted = quote(venue, request, clock),
                                   !.read = origin]
    /\ UNCHANGED <<overflow_checks, venue, origin, refreshes>>

GenerateSwapInstruction(request, user) ==
    /\ ~Crashed
    /\ last' = [Constructed EXCEPT !.op = "generate_swap_instruction",
                                   !.request = request,
                                   !.instruction =
                                       generate_swap_instruction(venue, request, user)]
    /\ UNCHANGED <<overflow_checks, venue, origin, refreshes>>

\* One call on a venue in any condition a refresh can leave it in.
InitQuote ==
    /\ overflow_checks \in BOOLEAN
    /\ venue \in QuoteVenues
    /\ origin = [f \in DOMAIN NoOrigin |-> 1]
    /\ refreshes = 1
    /\ last = Constructed

QuoteOnce(request, clock) == last.op = "new" /\ Quote(request, clock)
GenerateSwapInstructionOnce(request, user) ==
    last.op = "new" /\ GenerateSwapInstruction(request, user)

NextQuote ==
    \/ \E request \in QuoteRequests, clock \in Clocks : QuoteOnce(request, clock)
    \/ \E request \in QuoteRequests, user \in Users :
           GenerateSwapInstructionOnce(request, user)

SpecQuote == InitQuote /\ [][NextQuote]_vars

-----------------------------------------------------------------------------
(* The life of a venue: construction, refreshes, quotes and instructions.  *)

\* What the chain holds at two moments: the vault, the share mint's supply,
\* the asset mint's owner and decimals, the idle account's balance.
Snapshots ==
    {[vault |-> VaultOf([total_value |-> N(2000), dead_weight |-> N(DEAD_WEIGHT),
                         fees |-> <<Zero, Zero, Zero>>],
                        Zero, Zero,
                        [mgmt |-> <<N(100), N(100), Zero>>, redemption_fee |-> N(100),
                         issuance_fee |-> N(50), last_ts |-> T0],
                        [profit |-> Zero, last_report |-> Zero, duration |-> Zero]),
      lp_mint_supply |-> N(1000), asset_token_program |-> TOKEN_PROGRAM,
      asset_mint_decimals |-> 6, asset_idle_balance |-> N(500)],
     [vault |-> VaultOf([total_value |-> N(4000), dead_weight |-> N(DEAD_WEIGHT),
                         fees |-> <<N(5), N(7), N(11)>>],
                        N(2500), Zero,
                        [mgmt |-> <<Zero, Zero, Zero>>, redemption_fee |-> Zero,
                         issuance_fee |-> Zero, last_ts |-> Zero],
                        [profit |-> N(500), last_report |-> T0, duration |-> N(100)]),
      lp_mint_supply |-> N(3000), asset_token_program |-> TOKEN_22_PROGRAM,
      asset_mint_decimals |-> 9, asset_idle_balance |-> N(5000)]}

\* what can be wrong with what a refresh fetches
Defects ==
    {"none", "get_accounts", "vault_missing", "vault_short", "lp_missing", "lp_bad",
     "asset_missing", "asset_bad", "idle_missing", "idle_bad", "asset_info_bad",
     "lp_info_bad"}

Missing(account) == [account EXCEPT !.present = FALSE]
Undecodable(account) == [account EXCEPT !.data.unpacks = FALSE]
Unlisted(account) == [account EXCEPT !.data.token_info_ok = FALSE]
Truncated(account) ==
    [account EXCEPT !.data = SubSeq(@, 1, DISCRIMINATOR_SIZE + 679)]

Fetched(s, defect) ==
    LET vault_account == VaultAccount(s.vault)
        lp_mint_account == MintAccount(TOKEN_PROGRAM, s.lp_mint_supply, 9)
        asset_mint_account ==
            MintAccount(s.asset_token_program, Zero, s.asset_mint_decimals)
        idle_ata_account == TokenAccount(s.asset_token_program, s.asset_idle_balance)
    IN  [kind |-> IF defect = "get_accounts" THEN "Err" ELSE "Ok",
         err |-> IF defect = "get_accounts" THEN "AccountsCache" ELSE "none",
         accounts |->
            << CASE defect = "vault_missing" -> Missing(vault_account)
                 [] defect = "vault_short" -> Truncated(vault_account)
                 [] OTHER -> vault_account,
               CASE defect = "lp_missing" -> Missing(lp_mint_account)
                 [] defect = "lp_bad" -> Undecodable(lp_mint_account)
                 [] defect = "lp_info_bad" -> Unlisted(lp_mint_account)
                 [] OTHER -> lp_mint_account,
               CASE defect = "asset_missing" -> Missing(asset_mint_account)
                 [] defect = "asset_bad" -> Undecodable(asset_mint_account)
                 [] defect = "asset_info_bad" -> Unlisted(asset_mint_account)
                 [] OTHER -> asset_mint_account,
               CASE defect = "idle_missing" -> Missing(idle_ata_account)
                 [] defect = "idle_bad" -> Undecodable(idle_ata_account)
                 [] OTHER -> idle_ata_account >>]

FetchedSets == {Fetched(s, defect) : s \in Snapshots, defect \in Defects}

\* the fields a refresh has assigned once it has made `stage` of its assignments
Assigned(stage) ==
    {f \in DOMAIN NoOrigin :
        \/ f = "vault_state" /\ stage >= 1
        \/ f = "lp_mint" /\ stage >= 2
        \/ f = "asset_token_program" /\ stage >= 3
        \/ f = "asset_mint_decimals" /\ stage >= 4
        \/ f = "asset_idle_balance" /\ stage >= 5
        \/ f = "token_info" /\ stage >= 6}

UpdateState(fetched) ==
    /\ ~Crashed
    /\ refreshes < MaxRefreshes
    /\ LET r == update_state(venue, fetched)
       IN  /\ venue' = r.self
           /\ refreshes' = refreshes + 1
           /\ origin' = [f \in DOMAIN NoOrigin |->
                            IF f \in Assigned(r.stage) THEN refreshes + 1 ELSE origin[f]]
           /\ last' = [Constructed EXCEPT !.op = "update_state", !.fetched = fetched,
                                          !.updated = r.res]
    /\ UNCHANGED overflow_checks

LifecycleRequests == {r \in QuoteRequests : r.amount = AmountUnit}
LifecycleClocks == {c \in Clocks : c.secs = Add(T0, ClockUnit)}

Init ==
    /\ overflow_checks \in BOOLEAN
    /\ venue \in {new(VaultKey, s.vault) : s \in Snapshots}
    /\ origin = NoOrigin
    /\ refreshes = 0
    /\ last = Constructed

Next ==
    \/ \E fetched \in FetchedSets : UpdateState(fetched)
    \/ \E request \in LifecycleRequests, clock \in LifecycleClocks : Quote(request, clock)
    \/ \E request \in LifecycleRequests, user \in Users :
           GenerateSwapInstruction(request, user)

Spec == Init /\ [][Next]_vars

-----------------------------------------------------------------------------
(* The conversion functions and the decoder, called on their own: one call *)
(* of one function on arguments drawn from the values below.               *)

\* numbers of steps: u64 arguments are multiples of ValueUnit, besides the
\* values named here
ValueSteps == 1

ValueUnit == N(1000000)
U64Values ==
    {Times(k, ValueUnit) : k \in 0..ValueSteps}
    \cup {One, N(10000000), N(20000000), N(500000000), N(600000000), U64_MAX}
FeeRates == {Zero, N(50), N(100), N(MAX_FEE_BPS), N(MAX_FEE_BPS + 1), U16_MAX}
Decimals == {0, 6, 9, 38, 39, 128, 255}

\* what `last` holds after a call of a function f on args that returned r
Called(f, args, r) == [Constructed EXCEPT !.op = f, !.args = args, !.returned = r]
Idle == last.op = "new"

CalcInitLpToMint(amount, from_decimals, to_decimals) ==
    /\ Idle
    /\ last' = Called("calc_init_lp_to_mint", <<amount, from_decimals, to_decimals>>,
                      calc_init_lp_to_mint(amount, from_decimals, to_decimals))
    /\ UNCHANGED <<overflow_checks, venue, origin, refreshes>>

CalcDepositLpToMint(amount, total_lp_supply_pre_deposit, total_asset_pre_deposit, issuance_fee_bps) ==
    /\ Idle
    /\ last' = Called("calc_deposit_lp_to_mint",
                      <<amount, total_lp_supply_pre_deposit, total_asset_pre_deposit,
                        issuance_fee_bps>>,
                      calc_deposit_lp_to_mint(amount, total_lp_supply_pre_deposit,
                          total_asset_pre_deposit, issuance_fee_bps))
    /\ UNCHANGED <<overflow_checks, venue, origin, refreshes>>

CalcManagementFeeAmountInAsset(time_elapsed, total_asset_value, management_fee_bps) ==
    /\ Idle
    /\ last' = Called("calc_management_fee_amount_in_asset",
                      <<time_elapsed, total_asset_value, management_fee_bps>>,
                      calc_management_fee_amount_in_asset(time_elapsed,
                          total_asset_value, management_fee_bps))
    /\ UNCHANGED <<overflow_checks, venue, origin, refreshes>>

CalcWithdrawAssetToRedeem(amount_lp_to_burn, total_lp_supply_pre_withdraw, total_unlocked_asset, redemption_fee_bps) ==
    /\ Idle
    /\ last' = Called("calc_withdraw_asset_to_redeem",
                      <<amount_lp_to_burn, total_lp_supply_pre_withdraw,
                        total_unlocked_asset, redemption_fee_bps>>,
                      calc_withdraw_asset_to_redeem(amount_lp_to_burn,
                          total_lp_supply_pre_withdraw, total_unlocked_asset,
                          redemption_fee_bps))
    /\ UNCHANGED <<overflow_checks, venue, origin, refreshes>>

CalcFeeLpToMint(fee_amount, total_lp_supply_pre_fee, total_asset_post_fee) ==
    /\ Idle
    /\ last' = Called("calc_fee_lp_to_mint",
                      <<fee_amount, total_lp_supply_pre_fee, total_asset_post_fee>>,
                      calc_fee_lp_to_mint(fee_amount, total_lp_supply_pre_fee,
                                          total_asset_post_fee))
    /\ UNCHANGED <<overflow_checks, venue, origin, refreshes>>

\* the times a locked profit is asked at: DecaySteps seconds from the report
\* on, one second before it, and far after it
DecaySteps == 4
DecayClocks ==
    {Times(k, One) : k \in 0..DecaySteps}
        \cup {N(100), N(101), U64_MAX}
ReportTime == One
LockedProfitStates ==
    {[last_updated_locked_profit |-> p, last_report |-> ReportTime] :
        p \in {Zero, One, N(500), U64_MAX}}
DegradationWindows == {Zero, One, N(3), N(100), U64_MAX}

CalculateLockedProfit(locked_profit_state, locked_profit_degradation_duration, current_time) ==
    /\ Idle
    /\ last' = Called("calculate_locked_profit",
                      <<locked_profit_state, locked_profit_degradation_duration,
                        current_time>>,
                      calculate_locked_profit(locked_profit_state,
                                              locked_profit_degradation_duration,
                                              current_time))
    /\ UNCHANGED <<overflow_checks, venue, origin, refreshes>>

\* The buffers a vault is loaded from: vault accounts as the vault program
\* writes them, with the bytes that are not read set to 0 and to 255, buffers of
\* a byte pattern, each with up to ExtraBytes bytes appended, and buffers of
\* fewer than DISCRIMINATOR_SIZE + 680 bytes.
ExtraBytes == 1
PatternBuffer(n, m) == [i \in 1..n |-> (i * m + 3) % 256]
FullVault ==
    [asset |-> [mint |-> KeyOf(255), idle_ata |-> KeyOf(254),
                total_value |-> U64_MAX, idle_ata_auth_bump |-> 0],
     lp |-> [mint |-> KeyOf(0), mint_bump |-> 1, mint_auth_bump |-> 2],
     vault_configuration |->
         [max_cap |-> Sub(U64_MAX, One), start_at_ts |-> One,
          locked_profit_degradation_duration |-> N(3600),
          withdrawal_waiting_period |-> N(86400), disabled_operations |-> U16_MAX],
     fee_configuration |->
         [manager_performance_fee |-> N(10001), admin_performance_fee |-> N(10002),
          manager_management_fee |-> N(10003), admin_management_fee |-> N(10004),
          redemption_fee |-> N(10005), issuance_fee |-> N(10006),
          protocol_performance_fee |-> N(10007), protocol_management_fee |-> U16_MAX],
     fee_update |-> [last_performance_fee_update_ts |-> T0,
                     last_management_fee_update_ts |-> Add(T0, One)],
     fee_state |-> [accumulated_lp_manager_fees |-> N(1),
                    accumulated_lp_admin_fees |-> N(256),
                    accumulated_lp_protocol_fees |-> N(65536)],
     dead_weight |-> U64_MAX,
     high_water_mark |-> [highest_asset_per_lp_decimal_bits |-> U128_MAX,
                          last_updated_ts |-> T0],
     last_updated_ts |-> Add(T0, N(2)),
     locked_profit_state |-> [last_updated_locked_profit |-> N(500),
                              last_report |-> T0]]
WholeBuffers ==
    {VaultBytes(v, filler) : v \in {BaseVault, FullVault}, filler \in {0, 255}}
        \cup {PatternBuffer(DISCRIMINATOR_SIZE + 680, m) : m \in {0, 7, 85}}
Buffers ==
    {b \o Pad(k, 170) : b \in WholeBuffers, k \in 0..ExtraBytes}
        \cup {SubSeq(b, 1, n) : b \in WholeBuffers,
                                n \in {0, DISCRIMINATOR_SIZE + 263,
                                       DISCRIMINATOR_SIZE + 264,
                                       DISCRIMINATOR_SIZE + 679}}

VaultLoad(account_data) ==
    /\ Idle
    /\ last' = Called("Vault_load", <<account_data>>, Vault_load(account_data))
    /\ UNCHANGED <<overflow_checks, venue, origin, refreshes>>

FromAccount(pubkey, account) ==
    /\ Idle
    /\ last' = Called("from_account", <<pubkey, account>>, from_account(pubkey, account))
    /\ UNCHANGED <<overflow_checks, venue, origin, refreshes>>

\* The venues a management fee is estimated on: the manager, admin and protocol
\* management rates and the time of the last management fee; and the times an
\* estimate is asked at.
ManagementFees ==
    {<<Zero, Zero, Zero>>, <<N(100), N(100), Zero>>,
     <<N(MAX_FEE_BPS), N(MAX_FEE_BPS), N(MAX_FEE_BPS)>>, <<U16_MAX, One, Zero>>}
FeeClocks ==
    {Zero, T0, Add(T0, ClockUnit), Add(T0, N(ONE_YEAR_U64)), U64_MAX}
FeeVenue(fees, last_ts) ==
    new(VaultKey,
        [BaseVault EXCEPT !.fee_configuration.manager_management_fee = fees[1],
                          !.fee_configuration.admin_management_fee = fees[2],
                          !.fee_configuration.protocol_management_fee = fees[3],
                          !.fee_update.last_management_fee_update_ts = last_ts])

EstimateManagementFeeLp(self, current_ts, total_asset_value, total_lp_supply_incl_fees) ==
    /\ Idle
    /\ last' = Called("estimate_management_fee_lp",
                      <<self, current_ts, total_asset_value, total_lp_supply_incl_fees>>,
                      estimate_management_fee_lp(self, current_ts, total_asset_value,
                                                 total_lp_supply_incl_fees))
    /\ UNCHANGED <<overflow_checks, venue, origin, refreshes>>

InitCalc ==
    /\ overflow_checks \in BOOLEAN
    /\ venue = new(VaultKey, BaseVault)
    /\ origin = NoOrigin
    /\ refreshes = 0
    /\ last = Constructed

NextCalc ==
    \/ Idle /\ \E account_data \in Buffers : VaultLoad(account_data)
    \/ Idle /\ \E account_data \in Buffers :
                   FromAccount(VaultKey, [present |-> TRUE, owner |-> VOLTR_VAULT_PROGRAM,
                                          data |-> account_data])
    \/ Idle /\ \E state \in LockedProfitStates, window \in DegradationWindows,
                  now \in DecayClocks :
                   CalculateLockedProfit(state, window, now)
    \/ Idle /\ \E amount \in U64Values, from_decimals \in Decimals,
                  to_decimals \in Decimals :
                   CalcInitLpToMint(amount, from_decimals, to_decimals)
    \/ Idle /\ \E amount \in U64Values, supply \in U64Values, asset \in U64Values,
                  fee \in FeeRates :
                   CalcDepositLpToMint(amount, supply, asset, fee)
    \/ Idle /\ \E elapsed \in U64Values, asset \in U64Values, fee \in FeeRates :
                   CalcManagementFeeAmountInAsset(elapsed, asset, fee)
    \/ Idle /\ \E amount \in U64Values \cup {N(MAX_FEE_BPS)},
                  supply \in U64Values \cup {N(3)}, asset \in U64Values,
                  fee \in FeeRates \cup {N(MAX_FEE_BPS - 3)} :
                   CalcWithdrawAssetToRedeem(amount, supply, asset, fee)
    \/ Idle /\ \E fee_amount \in U64Values, supply \in U64Values,
                  asset \in U64Values :
                   CalcFeeLpToMint(fee_amount, supply, asset)
    \/ Idle /\ \E fees \in ManagementFees, last_ts \in FeeClocks, now \in FeeClocks,
                  asset \in U64Values, supply \in U64Values :
                   EstimateManagementFeeLp(FeeVenue(fees, last_ts), now, asset, supply)

SpecCalc == InitCalc /\ [][NextCalc]_vars

-----------------------------------------------------------------------------
(* Properties.  They speak of the last call: `last` holds its request, the *)
(* clock reading it got and what it returned, `venue` the venue it ran on. *)

Quoted == last.op = "quote"
ValidPair(request) == is_deposit(venue, request) \/ is_redeem(venue, request)
\* the share supply with the accumulated fee shares and the dead weight
SupplyInclFees ==
    CheckedMath(get_total_lp_supply_incl_fees(venue.vault_state, venue.lp_mint_supply))
WaitingPeriod == venue.vault_state.vault_configuration.withdrawal_waiting_period

\* C1: a quote for amount 0 in a valid direction returns Ok with expected_output 0
\* and not_enough_liquidity false, whatever state the venue is in; it never
\* returns an error.
ZeroAmountQuotesZero ==
    (Quoted /\ ValidPair(last.request) /\ last.request.amount = Zero)
        => last.quoted = QuoteOk(last.request, Zero, FALSE)

\* a zero redeem was quoted on a venue with a waiting period whose supply
\* computation overflows
ZeroAmountQuoted ==
    /\ Quoted /\ is_redeem(venue, last.request) /\ last.request.amount = Zero
    /\ WaitingPeriod # Zero
    /\ SupplyInclFees.kind = "Err"
    /\ last.quoted.kind = "Ok"

\* C10: quote and generate_swap_instruction fail with InvalidMint for every pair
\* of mints that is neither (asset mint, share mint) nor (share mint, asset
\* mint), before any other check: also when the amount is 0.
InvalidPairFailsFirst ==
    /\ (Quoted /\ ~ValidPair(last.request))
           => last.quoted = QuoteErr(KeyError("InvalidMint", last.request.input_mint))
    /\ (last.op = "generate_swap_instruction" /\ ~ValidPair(last.request))
           => last.instruction =
                  InstructionErr(KeyError("InvalidMint", last.request.input_mint))

\* a quote for amount 0 on an invalid pair failed with InvalidMint
InvalidPairQuotedAtZero ==
    /\ Quoted /\ ~ValidPair(last.request) /\ last.request.amount = Zero
    /\ last.quoted.kind = "Err" /\ last.quoted.err.variant = "InvalidMint"

\* the quote of the last request's pair of mints for amount a, at the same time
QuoteAt(a) == quote(venue, [last.request EXCEPT !.amount = a], last.clock)
Served(q) == q.kind = "Ok" /\ ~q.val.not_enough_liquidity
LargerAmounts == {a \in Amounts : Lt(last.request.amount, a)}
NotAbove(q1, q2) == Le(q1.val.expected_output, q2.val.expected_output)
NotAboveServed(q1, q2) == Served(q2) => NotAbove(q1, q2)
NotAboveOk(q1, q2) == q2.kind = "Ok" => NotAbove(q1, q2)
BelowServed(q1, q2) == Served(q2) /\ ~NotAbove(q2, q1)

\* C2: for a fixed venue state and time, in both directions, expected_output
\* does not decrease from amount a1 to a larger amount a2 if quote returns Ok
\* on a1 and returns Ok with not_enough_liquidity false on a2.
MonotoneUpToServedAmounts ==
    (Quoted /\ ValidPair(last.request) /\ last.quoted.kind = "Ok")
        => \A a \in LargerAmounts : NotAboveServed(last.quoted, QuoteAt(a))

\* a served quote with an output above 0 has a served quote of a larger amount
\* and a larger output
SmallerOfTwoServedQuoted ==
    /\ Quoted /\ ValidPair(last.request) /\ Served(last.quoted)
    /\ last.quoted.val.expected_output # Zero
    /\ \E a \in LargerAmounts : BelowServed(last.quoted, QuoteAt(a))

\* C2 as stated: for a fixed venue state and time, in both directions,
\* expected_output does not decrease from a1 to a larger a2 whenever quote
\* returns Ok on both.
MonotoneOverOkQuotes ==
    (Quoted /\ ValidPair(last.request) /\ last.quoted.kind = "Ok")
        => \A a \in LargerAmounts : NotAboveOk(last.quoted, QuoteAt(a))

\* the time the last quote took for now
Now == current_timestamp(venue, last.clock)
Amount == last.request.amount
TotalAssetValue == get_total_asset_value(venue.vault_state)
MaxCap == venue.vault_state.vault_configuration.max_cap
\* totalSharesBaseline: the share supply after the estimated management fee
SupplyAfterMgmtFee ==
    Try(SupplyInclFees, LAMBDA total_lp_supply_incl_fees :
    Try(estimate_management_fee_lp(venue, Now, TotalAssetValue, total_lp_supply_incl_fees),
        LAMBDA mgmt_fee_lp :
            supply_after_mgmt_fee(total_lp_supply_incl_fees, mgmt_fee_lp)))

\* the last call was a quote that came to the redeem path, to the deposit path
RedeemPath ==
    /\ Quoted /\ is_redeem(venue, last.request) /\ Amount # Zero
    /\ SupplyAfterMgmtFee.kind = "Ok"
DepositPath ==
    /\ Quoted /\ is_deposit(venue, last.request) /\ ~is_redeem(venue, last.request)
    /\ Amount # Zero
    /\ SupplyAfterMgmtFee.kind = "Ok"

\* out: the assets the redeemed shares are worth
RedeemOut ==
    Try(CheckedMath(get_unlocked_asset_value(venue.vault_state, Now)), LAMBDA unlocked :
        CheckedMath(calc_withdraw_asset_to_redeem(
            Amount, SupplyAfterMgmtFee.val, unlocked,
            venue.vault_state.fee_configuration.redemption_fee)))
RedeemPriced == RedeemPath /\ WaitingPeriod = Zero /\ RedeemOut.kind = "Ok"
RedeemAnswer(out) ==
    IF Lt(venue.asset_idle_balance, out) THEN QuoteOk(last.request, Zero, TRUE)
    ELSE QuoteOk(last.request, out, FALSE)
WithMaxCap(self, max_cap) ==
    [self EXCEPT !.vault_state.vault_configuration.max_cap = max_cap]

\* C6: a redeem of an amount above 0 with waiting period 0 that prices out assets
\* is quoted {0, not_enough_liquidity} if asset_idle_balance < out and {out,
\* enough} otherwise, also when asset_idle_balance = out; no dead weight is
\* taken off it, and the quote is the same under every capacity ceiling.
RedeemGatedByIdleBalance ==
    RedeemPriced
        => /\ last.quoted = RedeemAnswer(RedeemOut.val)
           /\ \A max_cap \in MaxCaps \ {MaxCap} :
                  quote(WithMaxCap(venue, max_cap), last.request, last.clock)
                      = last.quoted

\* a redeem whose output is all of the idle balance was quoted in full
RedeemOfWholeIdleBalanceQuoted ==
    /\ RedeemPriced
    /\ RedeemOut.val = venue.asset_idle_balance /\ RedeemOut.val # Zero
    /\ Served(last.quoted) /\ last.quoted.val.expected_output = RedeemOut.val

\* p: the shares the deposit path prices before the dead-weight burn
PreBurn ==
    lp_before_deadweight_of(venue, Amount, TotalAssetValue, SupplyInclFees.val,
                            SupplyAfterMgmtFee.val)
DepositPriced ==
    /\ DepositPath
    /\ ~exceeds_max_cap(MaxCap, TotalAssetValue, Amount)
    /\ PreBurn.kind = "Ok"
DepositAnswer(p) ==
    IF venue.vault_state.dead_weight # Zero THEN QuoteOk(last.request, p, FALSE)
    ELSE IF Lt(p, N(DEAD_WEIGHT)) THEN QuoteOk(last.request, Zero, TRUE)
    ELSE QuoteOk(last.request, Sub(p, N(DEAD_WEIGHT)), FALSE)

\* C8: a deposit past the capacity gate that prices p shares before the burn is
\* quoted {0, not_enough_liquidity} if dead_weight = 0 and p < 1000, {p - 1000,
\* enough} if dead_weight = 0 and p >= 1000, and {p, enough} if dead_weight # 0.
DepositBurnsDeadWeight == DepositPriced => last.quoted = DepositAnswer(PreBurn.val)

\* a deposit priced at exactly the dead weight was quoted 0 as a served quote
DepositOfDeadWeightQuoted ==
    /\ DepositPriced
    /\ venue.vault_state.dead_weight = Zero /\ PreBurn.val = N(DEAD_WEIGHT)
    /\ Served(last.quoted) /\ last.quoted.val.expected_output = Zero

WaitingPeriodError ==
    VenueError("AmmMethodError",
               "Withdrawal waiting period must be zero for instant redeems")
RedeemWhileWaiting ==
    Quoted /\ is_redeem(venue, last.request) /\ Amount # Zero /\ WaitingPeriod # Zero

\* C9: a redeem quote of an amount above 0 on a venue whose waiting period is
\* not 0 always fails: with the error of the supply or management fee
\* computation if that fails, and with the unsupported-operation error
\* otherwise.  It is never priced.
RedeemRefusedWhileWaiting ==
    RedeemWhileWaiting
        => /\ last.quoted.kind = "Err"
           /\ last.quoted.err = IF SupplyAfterMgmtFee.kind = "Ok" THEN WaitingPeriodError
                                ELSE SupplyAfterMgmtFee.err

\* a redeem was refused for the waiting period
RedeemRefusedForWaiting ==
    RedeemWhileWaiting /\ last.quoted = QuoteErr(WaitingPeriodError)

\* C9 as stated: such a redeem quote always fails with the unsupported-operation
\* error, whatever the other fields are.
RedeemWhileWaitingUnsupported ==
    RedeemWhileWaiting => last.quoted = QuoteErr(WaitingPeriodError)

\* the sum totalAssetValue + amount, not bounded by u64, exceeds the ceiling
AboveMaxCap == Gt(MaxCap, Zero) /\ Gt(Add(TotalAssetValue, Amount), MaxCap)
Flagged == QuoteOk(last.request, Zero, TRUE)

\* C7 as stated: on the deposit path with an amount above 0, whenever maxCap > 0
\* and totalAssetValue + amount exceeds maxCap, also when the sum exceeds the
\* u64 range, the quote is Ok {0, not_enough_liquidity}; when maxCap = 0 the
\* capacity gate never fires.
DepositGatedByMaxCap ==
    /\ (DepositPath /\ AboveMaxCap) => last.quoted = Flagged
    /\ (DepositPath /\ MaxCap = Zero /\ PreBurn.kind = "Ok")
           => last.quoted = DepositAnswer(PreBurn.val)

\* C5 as stated: every Ok result with not_enough_liquidity has expected_output
\* 0, and an idle balance below the redeem output, a deposit above the capacity
\* ceiling and a pre-burn mint below the dead weight are each reported as such
\* an Ok result, never as an error.
ShortfallsAreFlaggedResults ==
    /\ (Quoted /\ last.quoted.kind = "Ok" /\ last.quoted.val.not_enough_liquidity)
           => last.quoted.val.expected_output = Zero
    /\ (RedeemPriced /\ Lt(venue.asset_idle_balance, RedeemOut.val))
           => last.quoted = Flagged
    /\ (DepositPath /\ AboveMaxCap) => last.quoted = Flagged
    /\ (DepositPriced /\ ~AboveMaxCap /\ venue.vault_state.dead_weight = Zero
            /\ Lt(PreBurn.val, N(DEAD_WEIGHT)))
           => last.quoted = Flagged

Refreshed == last.op = "update_state"
\* the i-th account the refresh fetched is missing or does not decode
AccountUnusable(fetched, i) ==
    \/ ~fetched.accounts[i].present
    \/ IF i = 1 THEN Len(fetched.accounts[i].data) < DISCRIMINATOR_SIZE + 680
       ELSE ~fetched.accounts[i].data.unpacks
SomeAccountUnusable(fetched) ==
    fetched.kind = "Ok" /\ \E i \in 1..4 : AccountUnusable(fetched, i)

\* C3 as stated: update_state returns an error whenever one of the four fetched
\* accounts is missing or undecodable, and whenever it returns an error every
\* field of the venue has the value it had before the call.
RefreshIsAllOrNothing ==
    [][(Refreshed' /\ refreshes' = refreshes + 1)
           => /\ SomeAccountUnusable(last'.fetched) => last'.updated.kind = "Err"
              /\ last'.updated.kind = "Err" => venue' = venue]_vars

\* the groups of venue fields the last quote computed its result from
FieldsRead ==
    {"vault_state", "lp_mint"}
    \cup (IF RedeemPriced THEN {"asset_idle_balance"} ELSE {})
    \cup (IF DepositPath /\ ~exceeds_max_cap(MaxCap, TotalAssetValue, Amount)
             /\ SupplyInclFees.val = Zero
          THEN {"asset_mint_decimals"} ELSE {})

\* C4 as stated: whatever update_state calls, successful or failing, came
\* before it, a quote computes its result from fields that one and the same
\* refresh produced, never from fields of two different refreshes.
QuoteReadsOneRefresh ==
    (Quoted /\ ValidPair(last.request) /\ Amount # Zero)
        => \A f, g \in FieldsRead :
               (last.read[f] # 0 /\ last.read[g] # 0) => last.read[f] = last.read[g]

\* a computation the quote of the last request needs fails, or the request is a
\* redeem during a waiting period
QuoteRefused ==
    \/ SupplyAfterMgmtFee.kind # "Ok"
    \/ /\ is_redeem(venue, last.request)
       /\ (WaitingPeriod # Zero \/ RedeemOut.kind # "Ok")
    \/ /\ ~is_redeem(venue, last.request)
       /\ ~exceeds_max_cap(MaxCap, TotalAssetValue, Amount)
       /\ PreBurn.kind # "Ok"

\* C11: quote with a valid pair of mints returns Ok for amount 0, and for an
\* amount above 0 returns Ok exactly when the supply, fee and conversion
\* computations succeed and a redeem meets no waiting period; every error it
\* returns is the unsupported-operation error or an arithmetic error.
ValidPairQuoteFailsOnlyAsSpecified ==
    (Quoted /\ ValidPair(last.request))
        => /\ Amount = Zero => last.quoted.kind = "Ok"
           /\ Amount # Zero => (last.quoted.kind = "Ok" <=> ~QuoteRefused)
           /\ last.quoted.kind = "Err"
                  => last.quoted.err.variant \in {"AmmMethodError", "CheckedMathError"}

\* a redeem with no waiting period whose conversion overflows was quoted an error
RedeemConversionErrorQuoted ==
    /\ RedeemPath /\ WaitingPeriod = Zero /\ RedeemOut.kind = "Err"
    /\ last.quoted = QuoteErr(RedeemOut.err)

\* C11 as stated: quote with a valid pair of mints returns Ok for every venue
\* state, time and amount; it never returns an error.
ValidPairQuoteIsOk ==
    (Quoted /\ ValidPair(last.request)) => last.quoted.kind = "Ok"

-----------------------------------------------------------------------------
(* Properties of the conversion functions, checked under SpecCalc.         *)

CalledFn(f) == last.op = f
Arg(i) == last.args[i]

\* floor(a * b / c) on exact integers
FloorRatio(a, b, c) == Div(Mul(a, b), c)

\* the 48-bit fixed-point pipeline: two ratios, each truncated before the next
RedemptionAssetOut(L, S, U, f) ==
    Div(FloorRatio(FloorRatio(Mul(L, Pow(N(2), 48)), U, S),
                   Sub(N(10000), f), N(10000)),
        Pow(N(2), 48))

\* C12: with a share supply above 0, a successful calc_withdraw_asset_to_redeem
\* returns floor(floor(floor(L * 2^48 * U / S) * (10000 - f) / 10000) / 2^48);
\* with a share supply of 0 it fails with DivisionByZero.
WithdrawIsTwoTruncatedRatios ==
    CalledFn("calc_withdraw_asset_to_redeem")
        => /\ Arg(2) = Zero => last.returned = MathErr("DivisionByZero")
           /\ (Arg(2) # Zero /\ last.returned.kind = "Ok")
                  => /\ Le(Arg(4), N(10000))
                     /\ last.returned.val
                            = RedemptionAssetOut(Arg(1), Arg(2), Arg(3), Arg(4))

\* the example of the specification: 1_000_000 shares of 10_000_000 on
\* 20_000_000 of unlocked value at 100 bps were converted to 1_980_000
WithdrawExampleCalled ==
    /\ CalledFn("calc_withdraw_asset_to_redeem")
    /\ last.args = <<N(1000000), N(10000000), N(20000000), N(100)>>
    /\ last.returned = MathOk(N(1980000))

DepositNumerator(a, Y, i) == Mul(Mul(a, Sub(N(10000), i)), Y)
DepositDenominator(a, Z, i) ==
    Sub(Mul(N(10000), Add(Z, a)), Mul(a, Sub(N(10000), i)))

\* C13: a successful calc_deposit_lp_to_mint returns
\* floor(a * (10000 - i) * Y / (10000 * (Z + a) - a * (10000 - i))).
DepositIsFloorOfRatio ==
    (CalledFn("calc_deposit_lp_to_mint") /\ last.returned.kind = "Ok")
        => /\ Le(Arg(4), N(10000))
           /\ DepositDenominator(Arg(1), Arg(3), Arg(4)) # Zero
           /\ last.returned.val
                  = Div(DepositNumerator(Arg(1), Arg(2), Arg(4)),
                        DepositDenominator(Arg(1), Arg(3), Arg(4)))

\* the example of the specification: a deposit of 1_000_000 on 500_000_000
\* shares and 600_000_000 of assets at 50 bps minted 829_159 shares
DepositExampleCalled ==
    /\ CalledFn("calc_deposit_lp_to_mint")
    /\ last.args = <<N(1000000), N(500000000), N(600000000), N(50)>>
    /\ last.returned = MathOk(N(829159))

\* total * elapsed * bps, the dividend of the management fee
FeeProduct == Mul(Mul(Arg(2), Arg(1)), Arg(3))
FeeDivisor == Mul(N(10000), N(31536000))

\* C14: a successful calc_management_fee_amount_in_asset returns the ceiling of
\* total * elapsed * bps / (10000 * 31_536_000): it is not below the exact
\* value, exceeds it by less than 1, and is 0 only when the product is 0.
ManagementFeeIsCeiling ==
    (CalledFn("calc_management_fee_amount_in_asset") /\ last.returned.kind = "Ok")
        => /\ Ge(Mul(last.returned.val, FeeDivisor), FeeProduct)
           /\ Lt(Mul(last.returned.val, FeeDivisor), Add(FeeProduct, FeeDivisor))
           /\ last.returned.val = Zero => FeeProduct = Zero

\* a fee whose exact value is no integer was rounded up
ManagementFeeRoundedUp ==
    /\ CalledFn("calc_management_fee_amount_in_asset")
    /\ last.returned.kind = "Ok"
    /\ Mod(FeeProduct, FeeDivisor) # Zero
    /\ last.returned.val = Add(Div(FeeProduct, FeeDivisor), One)

\* fee * S and T - fee of a fee mint
FeeMintNumerator == Mul(Arg(1), Arg(2))
FeeMintDenominator == Sub(Arg(3), Arg(1))

\* C15: with total assets above the fee, a successful calc_fee_lp_to_mint
\* returns the ceiling of fee * S / (T - fee).
FeeMintIsCeiling ==
    (CalledFn("calc_fee_lp_to_mint") /\ last.returned.kind = "Ok")
        => /\ Gt(Arg(3), Arg(1))
           /\ Ge(Mul(last.returned.val, FeeMintDenominator), FeeMintNumerator)
           /\ Lt(Mul(last.returned.val, FeeMintDenominator),
                 Add(FeeMintNumerator, FeeMintDenominator))

\* a fee mint whose exact value is no integer was rounded up
FeeMintRoundedUp ==
    /\ CalledFn("calc_fee_lp_to_mint")
    /\ last.returned.kind = "Ok"
    /\ Mod(FeeMintNumerator, FeeMintDenominator) # Zero
    /\ last.returned.val = Add(Div(FeeMintNumerator, FeeMintDenominator), One)

\* C16: calc_fee_lp_to_mint fails with DivisionByZero whenever the fee equals
\* or exceeds the total assets.
FeeMintOfWholeAssetIsDivisionByZero ==
    (CalledFn("calc_fee_lp_to_mint") /\ Ge(Arg(1), Arg(3)))
        => last.returned = MathErr("DivisionByZero")

\* the call returned the exact value, or an error; a value above u64 is an error
ExactOrError(exact) ==
    /\ last.returned.kind \in {"Ok", "Err"}
    /\ last.returned.kind = "Ok" => last.returned.val = exact
    /\ Gt(exact, U64_MAX) => last.returned.kind = "Err"

\* ceil(a / b) on exact integers
CeilDiv(a, b) == Div(Add(a, Sub(b, One)), b)

\* floor(amount * 10^to_decimals / 10^from_decimals)
InitMintExact == Div(Mul(Arg(1), Pow(N(10), Arg(3))), Pow(N(10), Arg(2)))

\* the four conversions other than calc_init_lp_to_mint never crash and are
\* exact or fail wherever their formula is defined
CheckedConversionsAreExactOrError ==
    /\ CalledFn("calc_deposit_lp_to_mint")
           => /\ last.returned.kind # "Panic"
              /\ (Le(Arg(4), N(10000))
                      /\ DepositDenominator(Arg(1), Arg(3), Arg(4)) # Zero)
                     => ExactOrError(Div(DepositNumerator(Arg(1), Arg(2), Arg(4)),
                                         DepositDenominator(Arg(1), Arg(3), Arg(4))))
    /\ CalledFn("calc_management_fee_amount_in_asset")
           => ExactOrError(CeilDiv(FeeProduct, FeeDivisor))
    /\ CalledFn("calc_withdraw_asset_to_redeem")
           => /\ last.returned.kind # "Panic"
              /\ (Arg(2) # Zero /\ Le(Arg(4), N(10000)))
                     => ExactOrError(RedemptionAssetOut(Arg(1), Arg(2), Arg(3), Arg(4)))
    /\ CalledFn("calc_fee_lp_to_mint")
           => /\ last.returned.kind # "Panic"
              /\ Gt(Arg(3), Arg(1))
                     => ExactOrError(CeilDiv(FeeMintNumerator, FeeMintDenominator))

\* C17: each of the five conversion functions, on every input, returns the
\* exact value of its formula or an error: an overflow on the way, 10^decimals
\* included, or a value above 2^64 - 1 is an error, never a wrapped number and
\* never a crash.
ConversionsAreExactOrError ==
    /\ CheckedConversionsAreExactOrError
    /\ CalledFn("calc_init_lp_to_mint") => ExactOrError(InitMintExact)

\* calc_init_lp_to_mint returned a number that is not the value of its formula
InitMintWrapped ==
    /\ CalledFn("calc_init_lp_to_mint") /\ last.returned.kind = "Ok"
    /\ last.returned.val # InitMintExact

\* calc_init_lp_to_mint panicked
InitMintCrashed == CalledFn("calc_init_lp_to_mint") /\ last.returned.kind = "Panic"

\* now - last_report of the locked-profit call, and of a call at another time
ElapsedAt(now) == Sub(now, Arg(1).last_report)
ReportedBy(now) == Ge(now, Arg(1).last_report)
LockedProfitAt(now) == calculate_locked_profit(Arg(1), Arg(2), now)

\* the call was made at e2 seconds after the report, `now` is e1 < e2 seconds
\* after it, and e2 is inside the window
EarlierInsideWindow(now) ==
    /\ ReportedBy(now) /\ ReportedBy(Arg(3))
    /\ Lt(ElapsedAt(now), ElapsedAt(Arg(3)))
    /\ Lt(ElapsedAt(Arg(3)), Arg(2))

\* the locked profit is 0 from the end of the window on, and always with a
\* window of 0
LockedProfitEndsAtWindow ==
    (Arg(2) = Zero \/ (ReportedBy(Arg(3)) /\ Ge(ElapsedAt(Arg(3)), Arg(2))))
        => last.returned = MathOk(Zero)

\* C18: calculate_locked_profit is exactly 0 once now - last_report reaches
\* the window, and always with a window of 0; inside the window it never
\* fails, does not grow with the elapsed time, and strictly decreases when the
\* locked profit is at least the window.
LockedProfitDecays ==
    CalledFn("calculate_locked_profit")
        => /\ last.returned.kind = "Ok"
           /\ LockedProfitEndsAtWindow
           /\ \A now \in DecayClocks :
                  EarlierInsideWindow(now)
                      => /\ Ge(LockedProfitAt(now).val, last.returned.val)
                         /\ Ge(Arg(1).last_updated_locked_profit, Arg(2))
                                => Gt(LockedProfitAt(now).val, last.returned.val)

\* a locked profit of at least the window, asked inside the window, came out
\* below the whole amount and above 0
LockedProfitPartlyDecayed ==
    /\ CalledFn("calculate_locked_profit")
    /\ EarlierInsideWindow(Arg(1).last_report)
    /\ Ge(Arg(1).last_updated_locked_profit, Arg(2))
    /\ last.returned.kind = "Ok"
    /\ Gt(last.returned.val, Zero)
    /\ Lt(last.returned.val, Arg(1).last_updated_locked_profit)

\* C18 as stated: the locked profit is exactly 0 once now - last_report
\* reaches the window, and for e1 < e2 inside the window it is strictly larger
\* at e1 than at e2.
LockedProfitStrictlyDecays ==
    CalledFn("calculate_locked_profit")
        => /\ LockedProfitEndsAtWindow
           /\ \A now \in DecayClocks :
                  EarlierInsideWindow(now)
                      => Gt(LockedProfitAt(now).val, last.returned.val)

\* the size of the vault record: the discriminator and 680 bytes
RecordSize == 8 + 680

\* C19: Vault::load, and from_account through it, given a buffer shorter than
\* the record returns an error value: it does not panic and returns no
\* snapshot.
ShortBufferIsError ==
    /\ (CalledFn("Vault_load") /\ Len(Arg(1)) < RecordSize)
           => last.returned.kind = "Err"
    /\ (CalledFn("from_account") /\ Len(Arg(2).data) < RecordSize)
           => last.returned.kind = "Err"

\* what does hold for a short buffer: no snapshot is returned
ShortBufferIsNoSnapshot ==
    /\ (CalledFn("Vault_load") /\ Len(Arg(1)) < RecordSize)
           => last.returned.kind = "Panic"
    /\ (CalledFn("from_account") /\ Len(Arg(2).data) < RecordSize)
           => last.returned.kind = "Panic"

\* the width bytes at offset after the discriminator, and the integer they
\* spell with the least significant byte first: the low half of the bytes plus
\* 256^(bytes in the low half) times the high half
BytesAt(buffer, offset, width) == SubSeq(buffer, 8 + offset + 1, 8 + offset + width)
RECURSIVE LittleEndian(_)
LittleEndian(bytes) ==
    IF Len(bytes) = 0 THEN Zero
    ELSE IF Len(bytes) = 1 THEN N(bytes[1])
    ELSE Add(LittleEndian(SubSeq(bytes, 1, Len(bytes) \div 2)),
             Mul(Pow(N(256), Len(bytes) \div 2),
                 LittleEndian(SubSeq(bytes, Len(bytes) \div 2 + 1, Len(bytes)))))
IntAt(buffer, offset, width) == LittleEndian(BytesAt(buffer, offset, width))

\* every field of the snapshot v is what the layout puts at its offset
DecodedAsLaidOut(buffer, v) ==
    /\ v.asset = [mint |-> BytesAt(buffer, 96, 32),
                  idle_ata |-> BytesAt(buffer, 128, 32),
                  total_value |-> IntAt(buffer, 160, 8),
                  idle_ata_auth_bump |-> BytesAt(buffer, 168, 1)[1]]
    /\ v.lp = [mint |-> BytesAt(buffer, 264, 32),
               mint_bump |-> BytesAt(buffer, 296, 1)[1],
               mint_auth_bump |-> BytesAt(buffer, 297, 1)[1]]
    /\ v.vault_configuration =
           [max_cap |-> IntAt(buffer, 424, 8),
            start_at_ts |-> IntAt(buffer, 432, 8),
            locked_profit_degradation_duration |-> IntAt(buffer, 440, 8),
            withdrawal_waiting_period |-> IntAt(buffer, 448, 8),
            disabled_operations |-> IntAt(buffer, 456, 2)]
    /\ v.fee_configuration =
           [manager_performance_fee |-> IntAt(buffer, 504, 2),
            admin_performance_fee |-> IntAt(buffer, 506, 2),
            manager_management_fee |-> IntAt(buffer, 508, 2),
            admin_management_fee |-> IntAt(buffer, 510, 2),
            redemption_fee |-> IntAt(buffer, 512, 2),
            issuance_fee |-> IntAt(buffer, 514, 2),
            protocol_performance_fee |-> IntAt(buffer, 516, 2),
            protocol_management_fee |-> IntAt(buffer, 518, 2)]
    /\ v.fee_update = [last_performance_fee_update_ts |-> IntAt(buffer, 552, 8),
                       last_management_fee_update_ts |-> IntAt(buffer, 560, 8)]
    /\ v.fee_state = [accumulated_lp_manager_fees |-> IntAt(buffer, 568, 8),
                      accumulated_lp_admin_fees |-> IntAt(buffer, 576, 8),
                      accumulated_lp_protocol_fees |-> IntAt(buffer, 584, 8)]
    /\ v.dead_weight = IntAt(buffer, 608, 8)
    /\ v.high_water_mark =
           [highest_asset_per_lp_decimal_bits |-> IntAt(buffer, 616, 16),
            last_updated_ts |-> IntAt(buffer, 632, 8)]
    /\ v.last_updated_ts = IntAt(buffer, 648, 8)
    /\ v.locked_profit_state = [last_updated_locked_profit |-> IntAt(buffer, 664, 8),
                                last_report |-> IntAt(buffer, 672, 8)]
    /\ DOMAIN v = {"asset", "lp", "vault_configuration", "fee_configuration",
                   "fee_update", "fee_state", "dead_weight", "high_water_mark",
                   "last_updated_ts", "locked_profit_state"}

\* the byte ranges the layout gives a meaning, as offset and width after the
\* discriminator
ConsumedRanges ==
    {<<96, 73>>, <<264, 34>>, <<424, 34>>, <<504, 16>>, <<552, 16>>, <<568, 24>>,
     <<608, 8>>, <<616, 24>>, <<648, 8>>, <<664, 16>>}
AgreeOnConsumed(b1, b2) ==
    \A r \in ConsumedRanges : BytesAt(b1, r[1], r[2]) = BytesAt(b2, r[1], r[2])

\* C20: Vault::load of a buffer of at least 688 bytes succeeds whatever the
\* bytes are, every field of the snapshot is the little-endian integer or the
\* 32 bytes at its fixed offset, the eight fee rates in the order of the
\* layout, and a buffer with the same bytes in the consumed ranges loads to
\* the same snapshot.
VaultLoadIsStructuralCast ==
    (CalledFn("Vault_load") /\ Len(Arg(1)) >= RecordSize)
        => /\ last.returned.kind = "Ok"
           /\ DecodedAsLaidOut(Arg(1), last.returned.val)
           /\ \A other \in Buffers :
                  (Len(other) >= RecordSize /\ AgreeOnConsumed(Arg(1), other))
                      => Vault_load(other) = last.returned

\* a buffer with fee rates above 10000 was loaded, to the snapshot of another
\* buffer that differs from it outside the consumed ranges
UnvalidatedBufferLoaded ==
    /\ CalledFn("Vault_load")
    /\ Len(Arg(1)) >= RecordSize
    /\ last.returned.kind = "Ok"
    /\ Gt(last.returned.val.fee_configuration.issuance_fee, N(10000))
    /\ last.returned.val.fee_configuration.issuance_fee
           # last.returned.val.fee_configuration.redemption_fee
    /\ \E other \in Buffers :
           /\ other # Arg(1) /\ Len(other) = Len(Arg(1))
           /\ AgreeOnConsumed(Arg(1), other)

-----------------------------------------------------------------------------
(* Properties of the venue as an object: what a call leaves alone, what a  *)
(* quote depends on, and the life of the venue.                            *)

\* C21: quote leaves the venue unchanged: after any quote call, whether it
\* returns Ok, a flagged result or an error, vault_state, lp_mint_supply, both
\* decimals, asset_idle_balance, token_info and initialized (and the vault key
\* and the asset token program) are equal to their values before the call.
QuoteLeavesVenueUnchanged ==
    [][last'.op = "quote" =>
          /\ venue'.vault_state = venue.vault_state
          /\ venue'.lp_mint_supply = venue.lp_mint_supply
          /\ venue'.lp_mint_decimals = venue.lp_mint_decimals
          /\ venue'.asset_mint_decimals = venue.asset_mint_decimals
          /\ venue'.asset_idle_balance = venue.asset_idle_balance
          /\ venue'.token_info = venue.token_info
          /\ venue'.initialized = venue.initialized
          /\ venue' = venue]_vars

\* a flagged quote on a venue that a refresh has filled
FlaggedQuoteOnRefreshedVenue ==
    Quoted /\ venue.initialized /\ last.quoted = Flagged

\* C22: the timestamp a quote uses is supplied by the caller with the request
\* and the engine reads no clock of its own: two quote calls on the same venue
\* state with the same request return identical results, whatever the system
\* clock reads at each call.
QuoteIsDeterminedByVenueAndRequest ==
    Quoted => \A clock \in Clocks : quote(venue, last.request, clock) = last.quoted

\* the high-water marks a vault account can carry
HighWaterMarks ==
    {[highest_asset_per_lp_decimal_bits |-> Zero, last_updated_ts |-> Zero],
     [highest_asset_per_lp_decimal_bits |-> Pow(N(2), 64),
      last_updated_ts |-> Add(T0, ClockUnit)],
     [highest_asset_per_lp_decimal_bits |-> U128_MAX, last_updated_ts |-> U64_MAX]}

\* C23: the high-water mark is not consumed by quoting: for two venue states
\* that differ only in high_water_mark (highest value and its timestamp), quote
\* returns identical results for every request and every clock reading.
QuoteIgnoresHighWaterMark ==
    Quoted =>
        \A h \in HighWaterMarks \ {venue.vault_state.high_water_mark} :
            quote([venue EXCEPT !.vault_state.high_water_mark = h],
                  last.request, last.clock) = last.quoted

\* a served quote with a positive output on a venue that has twins with other
\* high-water marks
ServedQuoteWithOtherHighWaterMarks ==
    /\ Quoted /\ Served(last.quoted)
    /\ Gt(last.quoted.val.expected_output, Zero)
    /\ HighWaterMarks \ {venue.vault_state.high_water_mark} # {}

-----------------------------------------------------------------------------
(* Properties of the management-fee estimate, checked under SpecCalc.      *)

EstimateCalled == CalledFn("estimate_management_fee_lp")
LastFeeTime == Arg(1).vault_state.fee_update.last_management_fee_update_ts
\* the sum of the three management rates
CombinedRate ==
    Add(Add(Arg(1).vault_state.fee_configuration.admin_management_fee,
            Arg(1).vault_state.fee_configuration.manager_management_fee),
        Arg(1).vault_state.fee_configuration.protocol_management_fee)
\* total * (now - last) * rate, and the fee in asset it is the numerator of
AccruedProduct == Mul(Mul(Arg(3), Sub(Arg(2), LastFeeTime)), CombinedRate)
YearOfBps == Mul(N(MAX_FEE_BPS), N(ONE_YEAR_U64))
AccruedFee == CeilDiv(AccruedProduct, YearOfBps)
\* an estimate that returns 0 before it computes any fee
NothingAccrues ==
    \/ LastFeeTime = Zero
    \/ Arg(3) = Zero
    \/ CombinedRate = Zero
    \/ Le(Arg(2), LastFeeTime)
\* ceil(f * S / (T - f))
FeeShares == CeilDiv(Mul(AccruedFee, Arg(4)), Sub(Arg(3), AccruedFee))
ArithmeticError(r) == r.kind = "Err" /\ r.err.variant = "CheckedMathError"

\* C24 as stated: the estimate returns 0 when the last management-fee time is
\* 0, or the total asset value is 0, or the combined rate is 0, or now <= last,
\* or the fee f in asset is 0 or f >= total; in every other case it returns
\* feeToShareMint(f, S, T) = ceil(f * S / (T - f)), and never DivisionByZero.
EstimateIsZeroOrFeeMint ==
    EstimateCalled =>
        IF NothingAccrues \/ AccruedFee = Zero \/ Ge(AccruedFee, Arg(3))
        THEN last.returned = CheckedMath(MathOk(Zero))
        ELSE /\ last.returned =
                    CheckedMath(calc_fee_lp_to_mint(AccruedFee, Arg(4), Arg(3)))
             /\ last.returned.err.msg # "DivisionByZero"

\* C24: the estimate fails with an arithmetic error when the three rates do
\* not sum within u16; otherwise it returns 0 when the last management-fee time
\* is 0, the total asset value is 0, the combined rate is 0 or now <= last;
\* otherwise it fails with an arithmetic error when the fee f in asset does not
\* fit its accumulator or u64; otherwise it returns 0 when f is 0 or f >= total;
\* in every other case it returns ceil(f * S / (T - f)), or an arithmetic error
\* when that is above u64, and it never fails with DivisionByZero.
EstimateIsZeroOrFeeMintOrArithmeticError ==
    EstimateCalled =>
        /\ last.returned.kind # "Panic"
        /\ last.returned.err.msg # "DivisionByZero"
        /\ IF Gt(CombinedRate, U16_MAX)
           THEN ArithmeticError(last.returned)
           ELSE IF NothingAccrues
           THEN last.returned = CheckedMath(MathOk(Zero))
           ELSE IF \/ Gt(Add(AccruedProduct, Sub(YearOfBps, One)), U128_MAX)
                   \/ Gt(AccruedFee, U64_MAX)
           THEN ArithmeticError(last.returned)
           ELSE IF AccruedFee = Zero \/ Ge(AccruedFee, Arg(3))
           THEN last.returned = CheckedMath(MathOk(Zero))
           ELSE IF Gt(FeeShares, U64_MAX)
           THEN ArithmeticError(last.returned)
           ELSE last.returned = CheckedMath(MathOk(FeeShares))

\* an estimate that stopped at a fee of the whole asset value or more
EstimateStoppedAtWholeAssetFee ==
    /\ EstimateCalled
    /\ ~Gt(CombinedRate, U16_MAX) /\ ~NothingAccrues
    /\ Le(AccruedFee, U64_MAX) /\ Ge(AccruedFee, Arg(3))
    /\ last.returned = CheckedMath(MathOk(Zero))

-----------------------------------------------------------------------------
(* Properties of the pricing of a quote, checked under SpecQuote.          *)

\* mgmtFeeShares of the last quote
MgmtFeeShares ==
    estimate_management_fee_lp(venue, Now, TotalAssetValue, SupplyInclFees.val).val
\* totalSharesBaseline as a sum of integers
SharesBaseline ==
    Add(Add(Add(venue.lp_mint_supply,
                Add(Add(venue.vault_state.fee_state.accumulated_lp_manager_fees,
                        venue.vault_state.fee_state.accumulated_lp_admin_fees),
                    venue.vault_state.fee_state.accumulated_lp_protocol_fees)),
            venue.vault_state.dead_weight),
        MgmtFeeShares)
\* the shares of a deposit of `amount` before the burn, chosen by the baseline
BaselineMint(baseline) ==
    IF baseline = Zero
    THEN CheckedMath(calc_init_lp_to_mint(Amount, venue.asset_mint_decimals,
                                          venue.lp_mint_decimals))
    ELSE CheckedMath(calc_deposit_lp_to_mint(
             Amount, baseline, TotalAssetValue,
             venue.vault_state.fee_configuration.issuance_fee))
\* the assets of a redeem of `amount` priced against the baseline
BaselineRedeem(baseline) ==
    Try(CheckedMath(get_unlocked_asset_value(venue.vault_state, Now)), LAMBDA unlocked :
        CheckedMath(calc_withdraw_asset_to_redeem(
            Amount, baseline, unlocked,
            venue.vault_state.fee_configuration.redemption_fee)))
PricedAgainst(baseline) ==
    /\ SupplyAfterMgmtFee.val = baseline
    /\ (SupplyInclFees.val = Zero) <=> (baseline = Zero)
    /\ (RedeemPath /\ WaitingPeriod = Zero)
           => IF BaselineRedeem(baseline).kind = "Ok"
              THEN last.quoted = RedeemAnswer(BaselineRedeem(baseline).val)
              ELSE last.quoted = QuoteFail(BaselineRedeem(baseline))
    /\ (DepositPath /\ ~exceeds_max_cap(MaxCap, TotalAssetValue, Amount))
           => IF BaselineMint(baseline).kind = "Ok"
              THEN last.quoted = DepositAnswer(BaselineMint(baseline).val)
              ELSE last.quoted = QuoteFail(BaselineMint(baseline))

\* C25: both branches of quote price against totalSharesBaseline = raw share
\* supply + accumulated manager, admin and protocol fee shares + dead weight +
\* mgmtFeeShares; the deposit branch uses initialShareMint exactly when the
\* baseline is 0 and depositShareMint(amount, baseline, totalAssetValue,
\* issuanceFeeBps) otherwise, and the supply before the management fee is 0
\* exactly when the baseline is 0.
QuotePricesAgainstBaseline ==
    (RedeemPath \/ DepositPath) => PricedAgainst(SharesBaseline)

\* a deposit priced while management-fee shares are outstanding
DepositPricedAboveSupply ==
    /\ DepositPriced /\ Served(last.quoted)
    /\ Gt(MgmtFeeShares, Zero)
    /\ Gt(last.quoted.val.expected_output, Zero)

\* the last call was a deposit quote that came to the first-deposit path
FirstDepositPath ==
    /\ DepositPath /\ SupplyAfterMgmtFee.val = Zero
    /\ ~exceeds_max_cap(MaxCap, TotalAssetValue, Amount)
\* floor(amount * 10^to / 10^from), multiplied and then divided
ScaledAmount(from, to) == Div(Mul(Amount, Pow(N(10), to)), Pow(N(10), from))
\* the quote of a first deposit whose shares before the burn are p
FirstDepositAnswer(p) ==
    IF Le(p, U64_MAX) THEN last.quoted = DepositAnswer(p)
    ELSE last.quoted.kind = "Err"

\* C26: on the first-deposit path (totalSharesBaseline = 0) the shares of a
\* deposit quote before the burn are floor(amount * 10^9 / 10^assetDecimals),
\* multiplied and then divided, after every refresh: the share decimals used
\* are 9 whatever decimals the fetched share-mint account carries.
FirstDepositMintsAtNineDecimals ==
    FirstDepositPath => FirstDepositAnswer(ScaledAmount(venue.asset_mint_decimals, 9))

\* what holds: the first deposit is scaled to the decimals of the fetched share
\* mint, wherever both powers of ten fit the accumulator
FirstDepositMintsAtFetchedDecimals ==
    (FirstDepositPath /\ venue.asset_mint_decimals < 39 /\ venue.lp_mint_decimals < 39)
        => FirstDepositAnswer(ScaledAmount(venue.asset_mint_decimals,
                                           venue.lp_mint_decimals))

-----------------------------------------------------------------------------
(* Properties of the life of a venue, checked under Spec.                  *)

RefreshedOk == last.op = "update_state" /\ last.updated.kind = "Ok"
\* no token info before the venue is initialized; the asset mint and then the
\* share mint once it is
TokenInfoOfInitialized ==
    IF venue.initialized
    THEN /\ Len(venue.token_info) = 2
         /\ venue.token_info[1].pubkey = venue.vault_state.asset.mint
         /\ venue.token_info[2].pubkey = venue.vault_state.lp.mint
    ELSE venue.token_info = <<>>

\* C27: initialized is false from construction until the first update_state
\* that returns Ok, is true after every update_state that returns Ok, and never
\* goes back to false; token info is empty while initialized is false and holds
\* exactly two entries, the asset mint first and the share mint second, once it
\* is true.
VenueLifecycle ==
    [][/\ last.op = "new" => ~venue.initialized
       /\ venue.initialized => venue'.initialized
       /\ (~venue.initialized /\ venue'.initialized) => RefreshedOk'
       /\ RefreshedOk' => venue'.initialized
       /\ TokenInfoOfInitialized
       /\ TokenInfoOfInitialized']_vars

\* an initialized venue whose latest refresh failed
InitializedAfterFailedRefresh ==
    /\ venue.initialized
    /\ last.op = "update_state" /\ last.updated.kind = "Err"
    /\ Len(venue.token_info) = 2

-----------------------------------------------------------------------------
(* Properties of the redemption conversion, checked under SpecCalc.        *)

WithdrawCalled == CalledFn("calc_withdraw_asset_to_redeem")

\* C28: redemption never pays out more than the unlocked value: for a share
\* supply S > 0, shares to burn L <= S, any unlocked value U and a fee rate
\* f <= 10000, calc_withdraw_asset_to_redeem succeeds with a result <= U, and
\* with U itself when L = S and f = 0.
RedemptionWithinUnlockedValue ==
    (WithdrawCalled /\ Gt(Arg(2), Zero) /\ Le(Arg(1), Arg(2))
                    /\ Le(Arg(4), N(MAX_FEE_BPS)))
        => /\ last.returned.kind = "Ok"
           /\ Le(last.returned.val, Arg(3))
           /\ (Arg(1) = Arg(2) /\ Arg(4) = Zero) => last.returned.val = Arg(3)

\* the whole supply redeemed without a fee paid out the whole unlocked value
WholeSupplyRedeemed ==
    /\ WithdrawCalled /\ Gt(Arg(2), Zero) /\ Arg(1) = Arg(2) /\ Arg(4) = Zero
    /\ Gt(Arg(3), Zero)
    /\ last.returned = MathOk(Arg(3))

\* floor(L * U * (10000 - f) / (S * 10000)): the redemption as a single division
SingleDivision ==
    Div(Mul(Mul(Arg(1), Arg(3)), Sub(N(MAX_FEE_BPS), Arg(4))),
        Mul(Arg(2), N(MAX_FEE_BPS)))
\* both intermediate divisions of the fixed-point pipeline are exact
DivisionsExact ==
    /\ Mod(Mul(Mul(Arg(1), Pow(N(2), FRAC_BITS)), Arg(3)), Arg(2)) = Zero
    /\ Mod(Mul(FloorRatio(Mul(Arg(1), Pow(N(2), FRAC_BITS)), Arg(3), Arg(2)),
               Sub(N(MAX_FEE_BPS), Arg(4))),
           N(MAX_FEE_BPS)) = Zero

\* C29: wherever calc_withdraw_asset_to_redeem succeeds its result r satisfies
\* floor(L * U * (10000 - f) / (S * 10000)) - 1 <= r
\*                                  <= floor(L * U * (10000 - f) / (S * 10000)),
\* and r equals the single division whenever both intermediate divisions of the
\* fixed-point pipeline are exact.
RedemptionWithinOneOfSingleDivision ==
    (WithdrawCalled /\ last.returned.kind = "Ok")
        => /\ Le(SingleDivision, Add(last.returned.val, One))
           /\ Le(last.returned.val, SingleDivision)
           /\ DivisionsExact => last.returned.val = SingleDivision

\* a redemption that came out 1 below the single division
RedemptionOneBelowSingleDivision ==
    /\ WithdrawCalled /\ last.returned.kind = "Ok"
    /\ Add(last.returned.val, One) = SingleDivision

-----------------------------------------------------------------------------
(* Properties of a quote as a function of the amount, under SpecQuote.     *)

\* a quote q of amount a that the capacity gate flagged
CapacityFlagged(q, a) ==
    /\ is_deposit(venue, last.request)
    /\ q.kind = "Ok" /\ q.val.not_enough_liquidity
    /\ Gt(MaxCap, Zero) /\ Gt(Add(TotalAssetValue, a), MaxCap)
\* a quote q that the idle-balance gate flagged
IdleFlagged(q) ==
    /\ is_redeem(venue, last.request)
    /\ q.kind = "Ok" /\ q.val.not_enough_liquidity
FeasiblyNotAbove(q1, q2) == (Served(q1) /\ Served(q2)) => NotAbove(q1, q2)
\* what the quote q1 of amount a1 requires of the quote q2 of a larger amount a2
UpwardToOk(q1, a1, q2, a2) ==
    /\ FeasiblyNotAbove(q1, q2)
    /\ CapacityFlagged(q1, a1) => CapacityFlagged(q2, a2)
    /\ (IdleFlagged(q1) /\ q2.kind = "Ok") => IdleFlagged(q2)
Upward(q1, a1, q2, a2) ==
    /\ FeasiblyNotAbove(q1, q2)
    /\ CapacityFlagged(q1, a1) => CapacityFlagged(q2, a2)
    /\ IdleFlagged(q1) => IdleFlagged(q2)

\* C30: for a fixed venue state and time, in both directions, for amounts
\* a1 <= a2 whose quotes are both Ok and not flagged, expected_output(a1) <=
\* expected_output(a2); a deposit amount above one the capacity gate flagged is
\* flagged by it; a redeem amount above one the idle-balance gate flagged is
\* flagged by it whenever its quote is Ok.
FeasibleQuotesMonotoneGatesClosedOverOk ==
    (Quoted /\ ValidPair(last.request))
        => \A a \in LargerAmounts : UpwardToOk(last.quoted, Amount, QuoteAt(a), a)

\* a deposit the capacity gate flagged, with a larger deposit it flagged too
TwoDepositsFlaggedByCapacity ==
    /\ Quoted /\ CapacityFlagged(last.quoted, Amount)
    /\ \E a \in LargerAmounts : CapacityFlagged(QuoteAt(a), a)

\* C30 as stated: the same, with every redeem amount above one the idle-balance
\* gate flagged being flagged by it.
FeasibleQuotesMonotoneGatesClosed ==
    (Quoted /\ ValidPair(last.request))
        => \A a \in LargerAmounts : Upward(last.quoted, Amount, QuoteAt(a), a)

====
